---- MODULE Spec2Model ----
(***************************************************************************)
(* Transport and device-state engine of backend/server.py: the device      *)
(* registry (devices_state) and its lock, the serial connection map and    *)
(* its lock, the UDP receive path, the serial listeners, the command       *)
(* router and the connection monitor.                                      *)
(*                                                                         *)
(* Every thread of the program is a process with a program counter.  A     *)
(* step of a process is the code between two points where the thread can   *)
(* block (a lock acquisition) or where another thread can observe it.      *)
(* threading.Lock is not reentrant: a thread that acquires a lock it       *)
(* already holds blocks forever, so every acquisition is guarded by the    *)
(* lock being free, whoever asks.                                          *)
(*                                                                         *)
(* Time is counted in units of HEARTBEAT_INTERVAL (0.5 s).                 *)
(***************************************************************************)
EXTENDS Integers, Sequences, FiniteSets, TLC

(***************************************************************************)
(* Bounds of the model.                                                    *)
(***************************************************************************)
\* the clock stops at MaxTime (units of 0.5 s)
MaxTime == 10
ShortTime == 2
MaxFrames == 3
\* the key-value pairs of a generated telemetry payload
MaxPairs == 2
\* the chunks of a chunked serial message, and the chunk lines a listener reads
MaxChunks == 3
MaxChunkLines == 4
\* the requests a worker serves, the datagrams the receive loop handles and
\* the lines a listener reads
MaxRequests == 1
LifeRequests == 2
UsbRequests == 2
UdpRequests == 2
DetectRequests == 2
MaxDatagrams == 1
MaxLines == 1

(***************************************************************************)
(* Program constants, server.py lines 46-58, times in units of 0.5 s.      *)
(***************************************************************************)
CLEARCORE_PORT == 8888
HEARTBEAT_INTERVAL == 1
TIMEOUT_THRESHOLD == 6
USB_TIMEOUT_THRESHOLD == 12

None == "None"

\* the loaded device definitions: the keys of devices_state, in the order
\* load_device_definitions inserted them
DeviceOrder == <<"pressboi", "fillhead">>
Devices == {DeviceOrder[i] : i \in 1..Len(DeviceOrder)}
DeviceIndex(d) == CHOOSE i \in 1..Len(DeviceOrder) : DeviceOrder[i] = d

SerialPorts == {"COM3"}
SourceIps == {"10.0.0.5"}

\* request worker threads of the client surface, and the listener threads
\* that can exist at once
Workers == {"w1", "w2"}
Listeners == {"l1", "l2"}

VARIABLES
    devices_state,       \* device -> record, server.py line 82
    serial_connections,  \* serial port -> None or record, line 94
    state_lock,          \* None or the thread that holds it, line 77
    serial_lock,         \* line 79
    configs,             \* contents of connections.json
    udp_socket_bound,    \* line 98
    udp_init_attempted,  \* line 348
    now,                 \* time.time()
    calls,               \* thread -> number of calls it has taken up
    pc,                  \* thread -> position in its code
    loc                  \* thread -> local variables of the running call

vars == <<devices_state, serial_connections, state_lock, serial_lock, configs,
          udp_socket_bound, udp_init_attempted, now, calls, pc, loc>>


(***************************************************************************)
(* The registry and the connection map.                                    *)
(***************************************************************************)
\* the record load_device_definitions creates for a device, lines 251-260
\* (the empty text stands for a firmware_version of None)
NewDeviceState ==
    [connected |-> FALSE, ip |-> None, port |-> CLEARCORE_PORT, last_rx |-> 0,
     connection_method |-> "network", serial_port |-> None,
     telemetry |-> <<>>, firmware_version |-> <<>>]

\* a port with no entry in serial_connections
NoConn == [device_key |-> None, serial |-> None, thread |-> None]
\* the entry connect_serial_device stores, lines 1012-1016 (no 'serial' key yet)
NewConn(d, l) == [device_key |-> d, serial |-> None, thread |-> l]
\* a device with no entry in connections.json
NoCfg == [connection_method |-> None, serial_port |-> None]

\* local variables of a thread that runs no call
IdleLoc == [op |-> None, dev |-> None, sport |-> None, dkey |-> None, ip |-> None,
            uport |-> 0, cfg |-> <<>>, nested |-> FALSE, msg |-> <<>>,
            chunk_buffer |-> <<>>, idx |-> 0, wake |-> 0, emits |-> <<>>, ret |-> None,
            ser |-> FALSE, sent |-> <<>>]

\* socketio.emit of event ev about device d, recorded in the emitting call's
\* locals l
Emitted(l, ev, d) == [l EXCEPT !.emits = Append(@, <<ev, d>>)]
\* emit_device_update(device_name), lines 119-126, once state_lock is taken:
\* a device that is not in devices_state emits nothing
UpdateEmitted(l, d) ==
    IF d \in Devices THEN Emitted(l, "device_update", d) ELSE l

Go(t, p) == pc' = [pc EXCEPT ![t] = p]
\* thread t takes up a request, a datagram or a serial line
BeginCall(t) == calls' = [calls EXCEPT ![t] = @ + 1]
\* the call of thread t, with locals l, returns r
ReturnFrom(t, l, r) ==
    /\ pc' = [pc EXCEPT ![t] = "idle"]
    /\ loc' = [loc EXCEPT ![t] = [IdleLoc EXCEPT !.op = l.op, !.ret = r, !.emits = l.emits]]
Return(t, r) == ReturnFrom(t, loc[t], r)

\* save_connection_config's body after its load, lines 302-308
SavedConfig(cfg, d, method, sport) ==
    [x \in DOMAIN cfg \cup {d} |->
        IF x = d THEN [connection_method |-> method, serial_port |-> sport]
        ELSE cfg[x]]

(***************************************************************************)
(* connect_serial_device(port_name, device_key), lines 980-1021.           *)
(* The whole body runs under serial_lock.                                  *)
(***************************************************************************)
\* lines 986-989: take serial_lock; a port that has an entry returns True
connect_lock_then(t, p, d, found) ==
    IF found
    THEN /\ pc' = [pc EXCEPT ![t] = "idle"]
         /\ loc' = [loc EXCEPT ![t] = [IdleLoc EXCEPT !.op = "connect", !.ret = "True"]]
         /\ UNCHANGED serial_lock
    ELSE /\ pc' = [pc EXCEPT ![t] = "cs_state"]
         /\ loc' = [loc EXCEPT ![t] = [IdleLoc EXCEPT !.op = "connect", !.dev = d, !.sport = p]]
         /\ serial_lock' = t

connect_serial_device(t, p, d) ==
    /\ pc[t] = "idle"
    /\ serial_connections[p] = NoConn => \E l \in Listeners : pc[l] = "dead"
    /\ serial_lock = None
    /\ connect_lock_then(t, p, d, serial_connections[p] # NoConn)
    /\ UNCHANGED <<devices_state, serial_connections, state_lock, configs,
                   udp_socket_bound, udp_init_attempted, now>>
    /\ BeginCall(t)

\* lines 992-997: under state_lock, the device is switched to USB
connect_state(t) ==
    /\ pc[t] = "cs_state"
    /\ state_lock = None
    /\ devices_state' =
         IF loc[t].dev \in Devices
         THEN [devices_state EXCEPT ![loc[t].dev] =
                 [@ EXCEPT !.serial_port = loc[t].sport, !.connection_method = "usb",
                           !.connected = FALSE, !.ip = None]]
         ELSE devices_state
    /\ Go(t, "cs_emit")
    /\ UNCHANGED <<serial_connections, state_lock, serial_lock, configs,
                   udp_socket_bound, udp_init_attempted, now, calls, loc>>

\* lines 1005-1016 and 301: the listener thread is started, the entry is
\* stored, and save_connection_config reads connections.json
connect_spawn(t, l) ==
    /\ pc[t] = "cs_spawn"
    /\ pc[l] = "dead"
    /\ pc' = [pc EXCEPT ![t] = "cs_save", ![l] = "sl_open"]
    /\ loc' = [loc EXCEPT ![t] = [@ EXCEPT !.cfg = configs],
                          ![l] = [IdleLoc EXCEPT !.op = "listener", !.dev = loc[t].dev,
                                                 !.sport = loc[t].sport]]
    /\ serial_connections' = [serial_connections EXCEPT ![loc[t].sport] = NewConn(loc[t].dev, l)]
    /\ UNCHANGED <<devices_state, state_lock, serial_lock, configs,
                   udp_socket_bound, udp_init_attempted, now, calls>>

\* lines 302-308 and 1021: connections.json is written, serial_lock released
connect_save(t) ==
    /\ pc[t] = "cs_save"
    /\ configs' = SavedConfig(loc[t].cfg, loc[t].dev, "usb", loc[t].sport)
    /\ serial_lock' = None
    /\ Return(t, "True")
    /\ UNCHANGED <<devices_state, serial_connections, state_lock,
                   udp_socket_bound, udp_init_attempted, now, calls>>


(***************************************************************************)
(* disconnect_serial_device(port_name), lines 1023-1039.  It is called by  *)
(* a request worker (pc "idle") and by switch_to_network (pc "sn_disc",    *)
(* with state_lock held by the caller).                                    *)
(***************************************************************************)
\* where thread t continues when the disconnect_serial_device it called
\* returns r: in switch_to_network (line 1055), or the request is answered
disconnect_return(t, base, r) ==
    IF base.nested
    THEN /\ pc' = [pc EXCEPT ![t] = "sn_reset"]
         /\ loc' = [loc EXCEPT ![t] = base]
    ELSE ReturnFrom(t, base, r)

\* lines 1025-1028 and 1039: take serial_lock; delete the entry if there is one
disconnect_lock(t, p, base) ==
    /\ serial_lock = None
    /\ IF serial_connections[p] # NoConn
       THEN /\ serial_connections' = [serial_connections EXCEPT ![p] = NoConn]
            /\ serial_lock' = t
            /\ loc' = [loc EXCEPT ![t] = [base EXCEPT !.dkey = serial_connections[p].device_key]]
            /\ Go(t, "ds_state")
       ELSE /\ UNCHANGED <<serial_connections, serial_lock>>
            /\ disconnect_return(t, base, "False")
    /\ UNCHANGED <<devices_state, state_lock, configs, udp_socket_bound, udp_init_attempted, now>>

disconnect_serial_device(t, p) ==
    /\ pc[t] = "idle"
    /\ disconnect_lock(t, p, [IdleLoc EXCEPT !.op = "disconnect", !.sport = p])
    /\ BeginCall(t)

\* lines 1032-1034: under state_lock, the device is marked disconnected
disconnect_state(t) ==
    /\ pc[t] = "ds_state"
    /\ state_lock = None
    /\ devices_state' =
         IF loc[t].dkey \in Devices
         THEN [devices_state EXCEPT ![loc[t].dkey] = [@ EXCEPT !.connected = FALSE]]
         ELSE devices_state
    /\ Go(t, "ds_emit")
    /\ UNCHANGED <<serial_connections, state_lock, serial_lock, configs,
                   udp_socket_bound, udp_init_attempted, now, calls, loc>>

(***************************************************************************)
(* switch_to_network(device_key), lines 1041-1066.                         *)
(***************************************************************************)
\* line 1052, read without serial_lock
PortActive(sp) == sp # None /\ serial_connections[sp] # NoConn

\* lines 1055-1058 and 301: the device is reset to network mode and
\* save_connection_config reads connections.json, all under state_lock
switch_reset(t, d) ==
    /\ devices_state' = [devices_state EXCEPT ![d] =
            [@ EXCEPT !.connection_method = "network", !.serial_port = None,
                      !.connected = FALSE]]
    /\ pc' = [pc EXCEPT ![t] = "sn_save"]

\* lines 1043-1053: take state_lock; an unknown device returns False; a device
\* whose serial port has an entry calls disconnect_serial_device
switch_to_network(t, d) ==
    /\ pc[t] = "idle"
    /\ state_lock = None
    /\ IF d \notin Devices
       THEN /\ loc' = [loc EXCEPT ![t] = [IdleLoc EXCEPT !.op = "use_network", !.ret = "False"]]
            /\ UNCHANGED <<pc, state_lock, devices_state>>
       ELSE /\ state_lock' = t
            /\ IF PortActive(devices_state[d].serial_port)
               THEN /\ Go(t, "sn_disc")
                    /\ loc' = [loc EXCEPT ![t] = [IdleLoc EXCEPT !.op = "use_network", !.dev = d,
                                   !.sport = devices_state[d].serial_port, !.nested = TRUE]]
                    /\ UNCHANGED devices_state
               ELSE /\ switch_reset(t, d)
                    /\ loc' = [loc EXCEPT ![t] = [IdleLoc EXCEPT !.op = "use_network", !.dev = d,
                                   !.cfg = configs]]
    /\ UNCHANGED <<serial_connections, serial_lock, configs,
                   udp_socket_bound, udp_init_attempted, now>>
    /\ BeginCall(t)

\* line 1053: the call of disconnect_serial_device, state_lock held
switch_disconnect(t) ==
    /\ pc[t] = "sn_disc"
    /\ disconnect_lock(t, loc[t].sport, loc[t])
    /\ UNCHANGED calls

\* lines 1055-1058 after disconnect_serial_device has returned
switch_after_disconnect(t) ==
    /\ pc[t] = "sn_reset"
    /\ switch_reset(t, loc[t].dev)
    /\ loc' = [loc EXCEPT ![t] = [@ EXCEPT !.cfg = configs]]
    /\ UNCHANGED <<serial_connections, state_lock, serial_lock, configs,
                   udp_socket_bound, udp_init_attempted, now, calls>>

\* lines 302-308 and 1063-1064: connections.json is written, state_lock released
switch_save(t) ==
    /\ pc[t] = "sn_save"
    /\ configs' = SavedConfig(loc[t].cfg, loc[t].dev, "network", None)
    /\ state_lock' = None
    /\ Go(t, "sn_emit")
    /\ UNCHANGED <<devices_state, serial_connections, serial_lock,
                   udp_socket_bound, udp_init_attempted, now, calls, loc>>

(***************************************************************************)
(* send_command, lines 1091-1116 (handle_send_command, lines 1254-1282,    *)
(* is the same code), send_udp_message, lines 376-413, and                 *)
(* send_serial_command, lines 774-796.                                     *)
(***************************************************************************)
\* the positions of a listener at which the Serial object it opened is open
ListenerOpenPcs == {"sl_check", "sl_read", "hs_emit", "hs_class"}

\* lines 781-783: the port has an entry that holds an open Serial object
HasOpenSerial(p) ==
    /\ serial_connections[p] # NoConn
    /\ serial_connections[p].serial # None
    /\ pc[serial_connections[p].serial] \in ListenerOpenPcs

\* lines 1100-1105: under state_lock, the device is looked up and its
\* connection_method is read
send_command(t, d) ==
    /\ pc[t] = "idle"
    /\ state_lock = None
    /\ IF d \notin Devices
       THEN /\ loc' = [loc EXCEPT ![t] = [IdleLoc EXCEPT !.op = "send", !.ret = "NotFound"]]
            /\ pc' = pc
       ELSE /\ loc' = [loc EXCEPT ![t] = [IdleLoc EXCEPT !.op = "send", !.dev = d]]
            /\ Go(t, IF devices_state[d].connection_method = "usb" THEN "sc_port" ELSE "su_init")
    /\ UNCHANGED <<devices_state, serial_connections, state_lock, serial_lock, configs,
                   udp_socket_bound, udp_init_attempted, now>>
    /\ BeginCall(t)

\* a dispatch that refuses a USB command while the UDP socket is unbound; the
\* code does not do this
send_command_port_bound_only(t) ==
    /\ pc[t] = "sc_port"
    /\ IF devices_state[loc[t].dev].serial_port = None
       THEN Return(t, "NotConfigured")
       ELSE IF ~udp_socket_bound
       THEN Return(t, "False")
       ELSE /\ Go(t, "ss_lock")
            /\ loc' = [loc EXCEPT ![t] = [@ EXCEPT !.sport = devices_state[loc[t].dev].serial_port]]
    /\ UNCHANGED <<devices_state, serial_connections, state_lock, serial_lock, configs,
                   udp_socket_bound, udp_init_attempted, now, calls>>

\* lines 1108-1112: the device's serial_port is read from the live record,
\* state_lock no longer held
send_command_port(t) ==
    /\ pc[t] = "sc_port"
    /\ IF devices_state[loc[t].dev].serial_port = None
       THEN Return(t, "NotConfigured")
       ELSE /\ Go(t, "ss_lock")
            /\ loc' = [loc EXCEPT ![t] = [@ EXCEPT !.sport = devices_state[loc[t].dev].serial_port]]
    /\ UNCHANGED <<devices_state, serial_connections, state_lock, serial_lock, configs,
                   udp_socket_bound, udp_init_attempted, now, calls>>

\* an init_udp_socket that binds again after a failed bind; the code does not
\* do this
init_udp_socket_retrying(ok) ==
    IF udp_socket_bound
    THEN [bound |-> TRUE, attempted |-> udp_init_attempted, ret |-> TRUE]
    ELSE [bound |-> ok, attempted |-> TRUE, ret |-> ok]

\* init_udp_socket, lines 350-374: the values of udp_socket_bound and
\* udp_init_attempted it leaves and the value it returns; ok is the bind
\* succeeding.  A bound socket returns True, a bind that was attempted before
\* returns False, and else the bind is attempted.
init_udp_socket(ok) ==
    IF udp_socket_bound
    THEN [bound |-> TRUE, attempted |-> udp_init_attempted, ret |-> TRUE]
    ELSE IF udp_init_attempted
    THEN [bound |-> FALSE, attempted |-> TRUE, ret |-> FALSE]
    ELSE [bound |-> ok, attempted |-> TRUE, ret |-> ok]

\* lines 380-382: an unbound socket calls init_udp_socket, and the send
\* returns False if that returns False
send_udp_init(t, ok) ==
    LET r == IF udp_socket_bound
             THEN [bound |-> TRUE, attempted |-> udp_init_attempted, ret |-> TRUE]
             ELSE init_udp_socket(ok)
    IN  /\ pc[t] = "su_init"
        /\ udp_socket_bound' = r.bound
        /\ udp_init_attempted' = r.attempted
        /\ IF r.ret THEN Go(t, "su_lock") /\ loc' = loc ELSE Return(t, "False")
        /\ UNCHANGED <<devices_state, serial_connections, state_lock, serial_lock, configs,
                       now, calls>>

\* the destinations of one discovery broadcast, lines 433 and 436-438, in the
\* order of the sends
DiscoveryDestinations ==
    <<"192.168.1.255:8888", "127.0.0.1:8888", "127.0.0.1:8889", "127.0.0.1:8890",
      "127.0.0.1:8891">>
\* lines 429-446: the destinations sendto is called with when it raises for
\* the destinations at the places fails.  The send to the broadcast address
\* stands in the outer try alone, and its exception leaves the with block;
\* each send to a localhost port has a try of its own.
discover_sends(fails) ==
    IF 1 \in fails THEN SubSeq(DiscoveryDestinations, 1, 1) ELSE DiscoveryDestinations

\* the sends of one broadcast that fail: none, or the send to one destination
SendFailures == {{}} \cup {{i} : i \in DOMAIN DiscoveryDestinations}

\* trigger_discovery, lines 1118-1122, with discover_devices, lines 418-446:
\* an unbound socket calls init_udp_socket and nothing is sent if that
\* returns False; else the broadcast is sent under socket_lock.  The request
\* is answered success in all cases.
trigger_discovery(t, ok, fails) ==
    LET r == IF udp_socket_bound
             THEN [bound |-> TRUE, attempted |-> udp_init_attempted, ret |-> TRUE]
             ELSE init_udp_socket(ok)
    IN  /\ pc[t] = "idle"
        /\ udp_socket_bound' = r.bound
        /\ udp_init_attempted' = r.attempted
        /\ loc' = [loc EXCEPT ![t] = [IdleLoc EXCEPT !.op = "discover",
                        !.ret = IF r.ret THEN "Broadcast" ELSE "NoBroadcast",
                        !.sent = IF r.ret THEN discover_sends(fails) ELSE <<>>]]
        /\ UNCHANGED <<devices_state, serial_connections, state_lock, serial_lock, configs,
                       now, pc>>
        /\ BeginCall(t)

\* lines 384-400: under state_lock the device is read again; a USB device is
\* routed to send_serial_command with state_lock held
send_udp_lock(t) ==
    /\ pc[t] = "su_lock"
    /\ state_lock = None
    /\ IF devices_state[loc[t].dev].connection_method = "usb"
       THEN IF devices_state[loc[t].dev].serial_port # None
            THEN /\ state_lock' = t
                 /\ Go(t, "ss_lock")
                 /\ loc' = [loc EXCEPT ![t] = [@ EXCEPT !.nested = TRUE,
                                !.sport = devices_state[loc[t].dev].serial_port]]
            ELSE /\ Return(t, "False")
                 /\ UNCHANGED state_lock
       ELSE /\ Go(t, "su_send")
            /\ loc' = [loc EXCEPT ![t] = [@ EXCEPT !.ip = devices_state[loc[t].dev].ip,
                                                   !.uport = devices_state[loc[t].dev].port]]
            /\ UNCHANGED state_lock
    /\ UNCHANGED <<devices_state, serial_connections, serial_lock, configs,
                   udp_socket_bound, udp_init_attempted, now, calls>>

\* a send that calls sendto whether or not the device has an ip; the code does
\* not do this
send_udp_sendto_without_route(t, ok) ==
    /\ pc[t] = "su_send"
    /\ Return(t, IF ok THEN "True" ELSE "False")
    /\ UNCHANGED <<devices_state, serial_connections, state_lock, serial_lock, configs,
                   udp_socket_bound, udp_init_attempted, now, calls>>

\* lines 402-413: no ip, no send; else sendto under socket_lock, which no
\* thread holds across a step; ok = FALSE is sendto raising
send_udp_sendto(t, ok) ==
    /\ pc[t] = "su_send"
    /\ IF loc[t].ip = None
       THEN Return(t, "NoRoute")
       ELSE Return(t, IF ok THEN "True" ELSE "False")
    /\ UNCHANGED <<devices_state, serial_connections, state_lock, serial_lock, configs,
                   udp_socket_bound, udp_init_attempted, now, calls>>

\* send_serial_command returns r to send_command, or to send_udp_message
\* (line 394), whose return releases state_lock
send_serial_return(t, r) ==
    /\ Return(t, r)
    /\ state_lock' = IF loc[t].nested THEN None ELSE state_lock

\* lines 780-787: under serial_lock, a port whose entry holds an open Serial
\* object is written through it; ok = FALSE is the write raising
send_serial_lock(t, ok) ==
    /\ pc[t] = "ss_lock"
    /\ serial_lock = None
    /\ IF HasOpenSerial(loc[t].sport)
       THEN send_serial_return(t, IF ok THEN "True" ELSE "False")
       ELSE /\ Go(t, "ss_temp")
            /\ UNCHANGED <<loc, state_lock>>
    /\ UNCHANGED <<devices_state, serial_connections, serial_lock, configs,
                   udp_socket_bound, udp_init_attempted, now, calls>>

\* lines 790-796: the port is opened, written and closed; ok = FALSE is the
\* open or the write raising
send_serial_temp(t, ok) ==
    /\ pc[t] = "ss_temp"
    /\ send_serial_return(t, IF ok THEN "True" ELSE "False")
    /\ UNCHANGED <<devices_state, serial_connections, serial_lock, configs,
                   udp_socket_bound, udp_init_attempted, now, calls>>


(***************************************************************************)
(* Text.  A wire line is a sequence of lexemes ("PRESSBOI", "_", "TELEM:", *)
(* "psi", "=", "1", " ", ...); the string operations the code uses are     *)
(* defined on such sequences.                                              *)
(***************************************************************************)
StartsWith(s, p) == Len(s) >= Len(p) /\ SubSeq(s, 1, Len(p)) = p

\* str.find: the first position at which p occurs in s, 0 if none
Find(s, p) ==
    LET hits == {i \in 1..(Len(s) - Len(p) + 1) : SubSeq(s, i, i + Len(p) - 1) = p}
    IN  IF hits = {} THEN 0 ELSE CHOOSE i \in hits : \A j \in hits : i <= j

Contains(s, p) == Find(s, p) # 0

\* str.strip
RECURSIVE StripLeft(_)
StripLeft(s) == IF s # <<>> /\ Head(s) = " " THEN StripLeft(Tail(s)) ELSE s
RECURSIVE StripRight(_)
StripRight(s) ==
    IF s # <<>> /\ s[Len(s)] = " " THEN StripRight(SubSeq(s, 1, Len(s) - 1)) ELSE s
Strip(s) == StripRight(StripLeft(s))

\* str.split(sep) for a one-lexeme separator: the pieces between separators
RECURSIVE Split(_, _)
Split(s, sep) ==
    LET i == Find(s, <<sep>>)
    IN  IF i = 0 THEN <<s>>
        ELSE <<SubSeq(s, 1, i - 1)>> \o Split(SubSeq(s, i + 1, Len(s)), sep)

\* str.split(sep, 1) of a string that contains sep
SplitFirst(s, sep) ==
    LET i == Find(s, <<sep>>)
    IN  <<SubSeq(s, 1, i - 1), SubSeq(s, i + 1, Len(s))>>

\* str.split(): the pieces between runs of whitespace, none of them empty
RECURSIVE DropEmpty(_)
DropEmpty(ps) ==
    IF ps = <<>> THEN <<>>
    ELSE IF Head(ps) = <<>> THEN DropEmpty(Tail(ps))
    ELSE <<Head(ps)>> \o DropEmpty(Tail(ps))
SplitWhitespace(s) == DropEmpty(Split(s, " "))

\* str.upper and str.lower, on the lexemes that have letters of both cases
UpperLexeme(a) ==
    CASE a = "pressboi" -> "PRESSBOI"
      [] a = "fillhead" -> "FILLHEAD"
      [] a = "ghost" -> "GHOST"
      [] a = "telem:" -> "TELEM:"
      [] OTHER -> a
LowerLexeme(a) ==
    CASE a = "PRESSBOI" -> "pressboi"
      [] a = "FILLHEAD" -> "fillhead"
      [] a = "GHOST" -> "ghost"
      [] a = "TELEM:" -> "telem:"
      [] OTHER -> a
Lower(s) == [i \in 1..Len(s) |-> LowerLexeme(s[i])]

\* a device key as the string the code compares: the key of a one-lexeme
\* string, and a string that is no key otherwise
KeyOf(s) == IF Len(s) = 1 THEN s[1] ELSE "?"

(***************************************************************************)
(* Telemetry schemas (device_definitions[d]['telemetry_schema']) and       *)
(* parse_telemetry, lines 463-539.  Numbers are fixed point, in            *)
(* thousandths.                                                            *)
(***************************************************************************)
NoPrecision == -1
FieldSpec(type, map, multiplier, precision, unit) ==
    [type |-> type, map |-> map, multiplier |-> multiplier,
     precision |-> precision, unit |-> unit]
NoMap == <<>>

\* psi: float, precision 2, unit PSI; mode: an int with an enum map;
\* note: a string
Schema(d) ==
    IF d = "pressboi"
    THEN (<<"psi">> :> FieldSpec("float", NoMap, 1, 2, "PSI"))
         @@ (<<"mode">> :> FieldSpec("int", (<<"1">> :> <<"RUN">>), 1, NoPrecision, ""))
         @@ (<<"note">> :> FieldSpec("string", NoMap, 1, NoPrecision, ""))
    ELSE IF d = "fillhead"
    THEN (<<"psi">> :> FieldSpec("float", NoMap, 1, NoPrecision, ""))
    ELSE <<>>

\* safe_float, lines 104-109: float(str(s).strip().rstrip('.')) in
\* thousandths, 0.0 for what float() rejects
Numeral(s) ==
    CASE s = <<"1">> -> 1000
      [] s = <<"7">> -> 7000
      [] s = <<"12.345">> -> 12345
      [] OTHER -> -1
RECURSIVE StripDots(_)
StripDots(s) ==
    IF s # <<>> /\ s[Len(s)] = "." THEN StripDots(SubSeq(s, 1, Len(s) - 1)) ELSE s
safe_float(s) ==
    LET n == Numeral(StripDots(Strip(s)))
    IN  IF n < 0 THEN 0 ELSE n

\* the decimal digits of a natural number
RECURSIVE Digits(_)
Digits(n) ==
    LET d == <<"0", "1", "2", "3", "4", "5", "6", "7", "8", "9">>[(n % 10) + 1]
    IN  IF n < 10 THEN <<d>> ELSE Append(Digits(n \div 10), d)
RECURSIVE Pow10(_)
Pow10(k) == IF k = 0 THEN 1 ELSE 10 * Pow10(k - 1)
RECURSIVE ZeroPad(_, _)
ZeroPad(ds, k) == IF Len(ds) >= k THEN ds ELSE ZeroPad(<<"0">> \o ds, k)

\* f"{num_value:.{precision}f}" (lines 521-522) of m thousandths, precision 0..3
FormatFixed(m, precision) ==
    LET unit == Pow10(3 - precision)
        q == (m + unit \div 2) \div unit
    IN  IF precision = 0 THEN Digits(q)
        ELSE Digits(q \div Pow10(precision)) \o <<".">>
             \o ZeroPad(Digits(q % Pow10(precision)), precision)
\* f"{num_value}" (line 524) of m thousandths: the shortest form, "1.0" for 1
FormatFloat(m) ==
    IF m % 1000 = 0 THEN Digits(m \div 1000) \o <<".", "0">>
    ELSE IF m % 100 = 0 THEN FormatFixed(m, 1)
    ELSE IF m % 10 = 0 THEN FormatFixed(m, 2)
    ELSE FormatFixed(m, 3)

\* lines 503-529: the display form of value for a schema field
FormatValue(details, value) ==
    IF details.map # NoMap
    THEN IF value \in DOMAIN details.map THEN details.map[value] ELSE value
    ELSE IF details.type \in {"float", "int"}
    THEN LET num_value == safe_float(value) * details.multiplier
             text == IF details.precision # NoPrecision
                     THEN FormatFixed(num_value, details.precision)
                     ELSE FormatFloat(num_value)
         IN  IF details.unit # "" THEN text \o <<" ", details.unit>> ELSE text
    ELSE value

\* dict(item.split(sep, 1) for item in items if sep in item), lines 486 and
\* 489: the pairs in insertion order, a repeated key keeping its place and
\* taking the later value
RECURSIVE DictOfItems(_, _)
DictOfItems(items, sep) ==
    IF items = <<>> THEN <<>>
    ELSE LET rest == DictOfItems(SubSeq(items, 1, Len(items) - 1), sep)
             item == items[Len(items)]
             kv == SplitFirst(item, sep)
             at == {i \in 1..Len(rest) : rest[i][1] = kv[1]}
         IN  IF ~Contains(item, <<sep>>) THEN rest
             ELSE IF at = {} THEN Append(rest, kv)
             ELSE [rest EXCEPT ![CHOOSE i \in at : TRUE] = kv]

\* lines 483-489: the wire format is chosen by the payload holding ';' and '='
TelemetryParts(payload) ==
    IF Contains(payload, <<";">>) /\ Contains(payload, <<"=">>)
    THEN DictOfItems(Split(payload, ";"), "=")
    ELSE DictOfItems(Split(payload, ","), ":")

\* f"{key}_formatted", line 531
FormattedKey(key) == Append(key, "_formatted")

\* lines 492-534: parsed after the first n pairs of parts have been processed
RECURSIVE ProcessParts(_, _, _)
ProcessParts(parts, n, schema) ==
    IF n = 0 THEN <<>>
    ELSE LET before == ProcessParts(parts, n - 1, schema)
             key == Strip(parts[n][1])
             value == Strip(parts[n][2])
             new == IF key \in DOMAIN schema
                    THEN (key :> value) @@ (FormattedKey(key) :> FormatValue(schema[key], value))
                    ELSE (key :> value)
         IN  new @@ before

\* lines 476-481: the text after the first "<ID>_TELEM:", compared in lower case
TelemPrefix(device_name) == <<UpperLexeme(device_name), "_", "TELEM:">>

parse_telemetry(msg, device_name) ==
    LET prefix == TelemPrefix(device_name)
        at == Find(Lower(msg), Lower(prefix))
        payload == Strip(SubSeq(msg, at + Len(prefix), Len(msg)))
        parts == TelemetryParts(payload)
    IN  IF at = 0 THEN <<>>
        ELSE ProcessParts(parts, Len(parts), Schema(device_name))



(***************************************************************************)
(* The UDP receive path: handle_network_message(msg, source_ip), lines     *)
(* 541-664, run by udp_receive_loop (lines 681-700) for each datagram.     *)
(***************************************************************************)
\* int(value), -1 for what int() rejects
IntOf(s) ==
    LET v == Strip(s)
    IN  CASE v = <<"1">> -> 1
          [] v = <<"2">> -> 2
          [] v = <<"3">> -> 3
          [] v = <<"4">> -> 4
          [] v = <<"8888">> -> 8888
          [] v = <<"8889">> -> 8889
          [] OTHER -> -1

\* lines 547-560: the KEY=VALUE tokens of a discovery response, read left to
\* right; bad is int() raising on a PORT value
RECURSIVE DiscoveryTokens(_, _)
DiscoveryTokens(parts, n) ==
    IF n <= 1
    THEN [device_key |-> None, device_port |-> CLEARCORE_PORT, device_fw |-> <<>>, bad |-> FALSE]
    ELSE LET r == DiscoveryTokens(parts, n - 1)
             part == parts[n]
             key == SplitFirst(part, "=")[1]
             value == SplitFirst(part, "=")[2]
         IN  IF r.bad \/ ~Contains(part, <<"=">>) THEN r
             ELSE IF key = <<"DEVICE_ID">> THEN [r EXCEPT !.device_key = KeyOf(Lower(value))]
             ELSE IF key = <<"PORT">>
                  THEN IF IntOf(value) < 0 THEN [r EXCEPT !.bad = TRUE]
                       ELSE [r EXCEPT !.device_port = IntOf(value)]
             ELSE IF key \in {<<"FW">>, <<"FIRMWARE">>, <<"VERSION">>}
                  THEN [r EXCEPT !.device_fw = value]
             ELSE r
\* a parser for which a PORT value that is no integer ends the reading of the
\* tokens without failing the frame
ParseDiscoveryLenient(msg) ==
    LET parts == SplitWhitespace(msg)
    IN  [DiscoveryTokens(parts, Len(parts)) EXCEPT !.bad = FALSE]

ParseDiscovery(msg) ==
    LET parts == SplitWhitespace(msg) IN DiscoveryTokens(parts, Len(parts))

\* line 591: msg.split("_TELEM:")[0].lower()
TelemDeviceKey(msg) ==
    KeyOf(Lower(SubSeq(msg, 1, Find(msg, <<"_", "TELEM:">>) - 1)))

\* the branch of handle_network_message that msg takes
NetworkKind(msg) ==
    IF StartsWith(msg, <<"DISCOVERY_RESPONSE:">>) THEN "discovery"
    ELSE IF Contains(msg, <<"_", "TELEM:">>) THEN "telem"
    ELSE IF Contains(msg, <<"_", "RECOVERY:">>) \/ StartsWith(msg, <<"RECOVERY:">>) THEN "recovery"
    ELSE IF StartsWith(msg, <<"NVMDUMP:">>) THEN "nvmdump"
    ELSE IF \E h \in {"INFO:", "DONE:", "ERROR:"} : StartsWith(msg, <<h>>) THEN "status"
    ELSE IF \E d \in Devices : StartsWith(msg, <<UpperLexeme(d), "_">>) THEN "device_status"
    ELSE "unhandled"

\* lines 646-649: the first device, in the registry's order, whose ip is source_ip
RECURSIVE FirstWithIp(_, _)
FirstWithIp(i, source_ip) ==
    IF i > Len(DeviceOrder) THEN None
    ELSE IF devices_state[DeviceOrder[i]].ip = source_ip THEN DeviceOrder[i]
    ELSE FirstWithIp(i + 1, source_ip)

\* lines 653-655: the first device whose upper-case name and "_" start msg
RECURSIVE FirstWithPrefix(_, _)
FirstWithPrefix(i, msg) ==
    IF i > Len(DeviceOrder) THEN None
    ELSE IF StartsWith(msg, <<UpperLexeme(DeviceOrder[i]), "_">>) THEN DeviceOrder[i]
    ELSE FirstWithPrefix(i + 1, msg)

\* a receive path that marks the device connected without recording the
\* sender's address; the code does not do this
NetworkRxWithoutAddress(st, source_ip) ==
    [st EXCEPT !.connected = TRUE, !.last_rx = now]

\* lines 571-575 and 601-604: a frame from source_ip marks the device connected
NetworkRx(st, source_ip) ==
    [st EXCEPT !.connected = TRUE, !.ip = source_ip, !.last_rx = now]

\* dict.update, lines 614 and 843
DictUpdate(old, new) ==
    [k \in DOMAIN old \cup DOMAIN new |-> IF k \in DOMAIN new THEN new[k] ELSE old[k]]

\* the first step of handle_network_message for datagram msg from source_ip:
\* the part of its branch that runs up to the release of state_lock
handle_network_message(t, msg, source_ip) ==
    LET kind == NetworkKind(msg)
        base == [IdleLoc EXCEPT !.op = kind, !.msg = msg, !.ip = source_ip]
        disc == ParseDiscovery(msg)
        tkey == TelemDeviceKey(msg)
        sdev == FirstWithIp(1, source_ip)
        pdev == FirstWithPrefix(1, msg)
    IN
    /\ pc[t] = "idle"
    /\ (\/ kind \in {"telem", "status", "device_status"}
        \/ (kind = "discovery" /\ ~disc.bad /\ disc.device_key # None)) => state_lock = None
    /\ CASE kind = "discovery" ->
              \* lines 545-586
              IF disc.bad \/ disc.device_key = None
              THEN /\ ReturnFrom(t, base, "None")
                   /\ UNCHANGED devices_state
              ELSE IF disc.device_key \in Devices
                      /\ devices_state[disc.device_key].connection_method = "usb"
              THEN /\ ReturnFrom(t, base, "None")
                   /\ UNCHANGED devices_state
              ELSE /\ devices_state' =
                        IF disc.device_key \in Devices
                        THEN [devices_state EXCEPT ![disc.device_key] =
                                [NetworkRx(@, source_ip) EXCEPT
                                    !.port = disc.device_port,
                                    !.firmware_version =
                                        IF disc.device_fw # <<>> THEN disc.device_fw ELSE @]]
                        ELSE devices_state
                   /\ pc' = [pc EXCEPT ![t] = "un_emit"]
                   /\ loc' = [loc EXCEPT ![t] = [base EXCEPT !.dev = disc.device_key]]
         [] kind = "telem" ->
              \* lines 589-607
              IF tkey \in Devices /\ devices_state[tkey].connection_method = "usb"
              THEN /\ ReturnFrom(t, base, "None")
                   /\ UNCHANGED devices_state
              ELSE /\ devices_state' =
                        IF tkey \in Devices
                        THEN [devices_state EXCEPT ![tkey] = NetworkRx(@, source_ip)]
                        ELSE devices_state
                   /\ pc' = [pc EXCEPT ![t] = "un_telem"]
                   /\ loc' = [loc EXCEPT ![t] = [base EXCEPT !.dev = tkey]]
         [] kind = "recovery" ->
              \* lines 624-627
              /\ ReturnFrom(t, Emitted(base, "recovery", source_ip), "None")
              /\ UNCHANGED devices_state
         [] kind = "nvmdump" ->
              \* lines 630-637
              /\ ReturnFrom(t, IF Len(Split(Tail(msg), ":")) >= 2
                               THEN Emitted(base, "nvm_dump", KeyOf(Lower(Split(Tail(msg), ":")[1])))
                               ELSE base, "None")
              /\ UNCHANGED devices_state
         [] kind = "status" ->
              \* lines 640-650
              /\ ReturnFrom(t, Emitted(base, "status_message", source_ip), "None")
              /\ devices_state' =
                   IF sdev # None
                   THEN [devices_state EXCEPT ![sdev] = [@ EXCEPT !.last_rx = now]]
                   ELSE devices_state
         [] kind = "device_status" ->
              \* lines 653-661
              /\ ReturnFrom(t, Emitted(base, "status_message", pdev), "None")
              /\ devices_state' = [devices_state EXCEPT ![pdev] = [@ EXCEPT !.last_rx = now]]
         [] OTHER ->
              \* line 664
              /\ ReturnFrom(t, Emitted(base, "log_unhandled", source_ip), "None")
              /\ UNCHANGED devices_state
    /\ UNCHANGED <<serial_connections, state_lock, serial_lock, configs,
                   udp_socket_bound, udp_init_attempted, now>>
    /\ BeginCall(t)

\* lines 610-615: parse_telemetry (which takes state_lock to read the schema),
\* then under state_lock the update of the device's telemetry, then
\* emit_telemetry
network_telemetry(t) ==
    LET parsed == parse_telemetry(loc[t].msg, loc[t].dev) IN
    /\ pc[t] = "un_telem"
    /\ state_lock = None
    /\ devices_state' =
         IF DOMAIN parsed # {} /\ loc[t].dev \in Devices
         THEN [devices_state EXCEPT ![loc[t].dev] =
                 [@ EXCEPT !.telemetry = DictUpdate(@, parsed)]]
         ELSE devices_state
    /\ loc' = [loc EXCEPT ![t] = IF DOMAIN parsed # {} THEN Emitted(@, "telemetry", loc[t].dev) ELSE @]
    /\ Go(t, "un_emit")
    /\ UNCHANGED <<serial_connections, state_lock, serial_lock, configs,
                   udp_socket_bound, udp_init_attempted, now, calls>>

(***************************************************************************)
(* The serial listener: serial_listener_thread(port_name, device_key),     *)
(* lines 873-978, and handle_serial_message, lines 798-871.                *)
(***************************************************************************)
\* a header parser that takes a header it cannot read for chunk 0 of 0; the
\* code does not do this
ParseChunkLenient(line) ==
    LET header_end == Find(line, <<":">>)
        header == SubSeq(line, 2, header_end - 1)
        nums == Split(header, "/")
    IN  IF header_end = 0 \/ Len(nums) # 2 \/ IntOf(nums[1]) < 0 \/ IntOf(nums[2]) < 0
        THEN [bad |-> FALSE, chunk |-> <<0, 0, <<>>>>]
        ELSE [bad |-> FALSE,
              chunk |-> <<IntOf(nums[1]), IntOf(nums[2]), SubSeq(line, header_end + 1, Len(line))>>]

\* lines 933-936: the header and data of a CHUNK_ line; bad is line.index,
\* int() or the unpacking of header.split("/") raising
ParseChunk(line) ==
    LET header_end == Find(line, <<":">>)
        header == SubSeq(line, 2, header_end - 1)
        nums == Split(header, "/")
    IN  IF header_end = 0 \/ Len(nums) # 2 \/ IntOf(nums[1]) < 0 \/ IntOf(nums[2]) < 0
        THEN [bad |-> TRUE, chunk |-> <<0, 0, <<>>>>]
        ELSE [bad |-> FALSE,
              chunk |-> <<IntOf(nums[1]), IntOf(nums[2]), SubSeq(line, header_end + 1, Len(line))>>]

\* list.sort(key=lambda x: x[0]), line 941: stable insertion by chunk number
RECURSIVE InsertChunk(_, _)
InsertChunk(sorted, c) ==
    IF sorted = <<>> THEN <<c>>
    ELSE IF sorted[Len(sorted)][1] <= c[1] THEN Append(sorted, c)
    ELSE Append(InsertChunk(SubSeq(sorted, 1, Len(sorted) - 1), c), sorted[Len(sorted)])
RECURSIVE SortChunks(_)
SortChunks(buf) ==
    IF buf = <<>> THEN <<>>
    ELSE InsertChunk(SortChunks(SubSeq(buf, 1, Len(buf) - 1)), buf[Len(buf)])

\* ''.join([c[2] for c in chunk_buffer]), line 942
RECURSIVE JoinChunks(_)
JoinChunks(buf) == IF buf = <<>> THEN <<>> ELSE Head(buf)[3] \o JoinChunks(Tail(buf))

\* lines 928-950 for one line read from the port: the chunk buffer afterwards
\* and the message handed to handle_serial_message, if one is
\* (dispatch = FALSE: none)
ReadLine(chunk_buffer, raw) ==
    LET line == Strip(raw)
        c == ParseChunk(line)
        buf == Append(chunk_buffer, c.chunk)
        keep == [chunk_buffer |-> chunk_buffer, dispatch |-> FALSE, message |-> <<>>]
    IN  IF line = <<>> THEN keep
        ELSE IF ~StartsWith(line, <<"CHUNK_">>)
        THEN [chunk_buffer |-> chunk_buffer, dispatch |-> TRUE, message |-> line]
        ELSE IF c.bad THEN keep
        ELSE IF Len(buf) = c.chunk[2]
        THEN [chunk_buffer |-> <<>>, dispatch |-> TRUE, message |-> JoinChunks(SortChunks(buf))]
        ELSE IF Len(buf) > c.chunk[2]
        THEN [chunk_buffer |-> <<>>, dispatch |-> FALSE, message |-> <<>>]
        ELSE [chunk_buffer |-> buf, dispatch |-> FALSE, message |-> <<>>]

\* the branch of handle_serial_message that msg takes, lines 822-871
SerialKind(msg, device_key) ==
    IF StartsWith(msg, <<"DISCOVERY_RESPONSE:">>) THEN "discovery"
    ELSE IF Contains(msg, <<"_", "TELEM:">>) THEN "telem"
    ELSE IF Contains(msg, <<"_", "RECOVERY:">>) \/ StartsWith(msg, <<"RECOVERY:">>) THEN "recovery"
    ELSE IF StartsWith(msg, <<"NVMDUMP:">>) THEN "nvmdump"
    ELSE IF \/ \E h \in {"INFO:", "DONE:", "ERROR:"} : StartsWith(msg, <<h>>)
            \/ StartsWith(msg, <<UpperLexeme(device_key), "_">>) THEN "status"
    ELSE "unhandled"

\* lines 824-832: the value of the first FW, FIRMWARE or VERSION token
RECURSIVE FirstFirmware(_, _)
FirstFirmware(parts, i) ==
    IF i > Len(parts) THEN [found |-> FALSE, value |-> <<>>]
    ELSE IF Contains(parts[i], <<"=">>)
            /\ SplitFirst(parts[i], "=")[1] \in {<<"FW">>, <<"FIRMWARE">>, <<"VERSION">>}
    THEN [found |-> TRUE, value |-> SplitFirst(parts[i], "=")[2]]
    ELSE FirstFirmware(parts, i + 1)

\* line 879-906: the port is opened, reset and drained; ok = FALSE is
\* serial.Serial or the reset raising, which leads to the finally clause
listener_open(l, ok) ==
    /\ pc[l] = "sl_open"
    /\ Go(l, IF ok THEN "sl_store" ELSE "sl_finally")
    /\ UNCHANGED <<devices_state, serial_connections, state_lock, serial_lock, configs,
                   udp_socket_bound, udp_init_attempted, now, calls, loc>>

\* lines 911-913: under serial_lock, the Serial object is stored in the
\* port's entry, if the port has one
listener_store(l) ==
    /\ pc[l] = "sl_store"
    /\ serial_lock = None
    /\ serial_connections' =
         IF serial_connections[loc[l].sport] # NoConn
         THEN [serial_connections EXCEPT ![loc[l].sport] = [@ EXCEPT !.serial = l]]
         ELSE serial_connections
    /\ Go(l, "sl_check")
    /\ UNCHANGED <<devices_state, state_lock, serial_lock, configs,
                   udp_socket_bound, udp_init_attempted, now, calls, loc>>

\* lines 918-921: under serial_lock, the loop ends when the port has no entry
listener_check(l) ==
    /\ pc[l] = "sl_check"
    /\ serial_lock = None
    /\ Go(l, IF serial_connections[loc[l].sport] = NoConn THEN "sl_cleanup" ELSE "sl_read")
    /\ UNCHANGED <<devices_state, serial_connections, state_lock, serial_lock, configs,
                   udp_socket_bound, udp_init_attempted, now, calls, loc>>

\* lines 927-950 and 800-815: a line is read; a complete message marks the
\* device connected over USB, under state_lock
listener_read(l, raw) ==
    LET r == ReadLine(loc[l].chunk_buffer, raw)
        msg == Strip(r.message)
        d == loc[l].dev
    IN
    /\ pc[l] = "sl_read"
    /\ IF r.dispatch /\ msg # <<>>
       THEN /\ state_lock = None
            /\ devices_state' =
                 IF d \in Devices
                 THEN [devices_state EXCEPT ![d] =
                         [@ EXCEPT !.connected = TRUE, !.last_rx = now,
                                   !.connection_method = "usb"]]
                 ELSE devices_state
            /\ Go(l, "hs_emit")
            /\ loc' = [loc EXCEPT ![l] = [@ EXCEPT !.chunk_buffer = r.chunk_buffer,
                                                   !.msg = msg, !.emits = <<>>]]
       ELSE /\ loc' = [loc EXCEPT ![l] = [@ EXCEPT !.chunk_buffer = r.chunk_buffer]]
            /\ UNCHANGED <<devices_state, pc>>
    /\ UNCHANGED <<serial_connections, state_lock, serial_lock, configs,
                   udp_socket_bound, udp_init_attempted, now>>
    /\ BeginCall(l)

\* lines 927 and 952: no line is waiting; the loop goes round
listener_poll(l) ==
    /\ pc[l] = "sl_read"
    /\ Go(l, "sl_check")
    /\ UNCHANGED <<devices_state, serial_connections, state_lock, serial_lock, configs,
                   udp_socket_bound, udp_init_attempted, now, calls, loc>>

\* lines 924-925 and 954-956: the port is gone, or a read raises
listener_error(l) ==
    /\ pc[l] = "sl_read"
    /\ Go(l, "sl_cleanup")
    /\ UNCHANGED <<devices_state, serial_connections, state_lock, serial_lock, configs,
                   udp_socket_bound, udp_init_attempted, now, calls, loc>>

\* lines 822-845: under state_lock, a discovery response sets the firmware
\* version and telemetry is merged into the device's telemetry
handle_serial_class(l) ==
    LET msg == loc[l].msg
        d == loc[l].dev
        fw == FirstFirmware(SplitWhitespace(msg), 2)
        parsed == parse_telemetry(msg, d)
    IN
    /\ pc[l] = "hs_class"
    /\ state_lock = None
    /\ IF SerialKind(msg, d) = "discovery"
       THEN /\ devices_state' =
                 IF fw.found /\ d \in Devices
                 THEN [devices_state EXCEPT ![d] = [@ EXCEPT !.firmware_version = fw.value]]
                 ELSE devices_state
            /\ loc' = loc
       ELSE /\ devices_state' =
                 IF DOMAIN parsed # {} /\ d \in Devices
                 THEN [devices_state EXCEPT ![d] = [@ EXCEPT !.telemetry = DictUpdate(@, parsed)]]
                 ELSE devices_state
            /\ loc' = [loc EXCEPT ![l] =
                 IF DOMAIN parsed # {} THEN Emitted(@, "telemetry", d) ELSE @]
    /\ Go(l, "sl_read")
    /\ UNCHANGED <<serial_connections, state_lock, serial_lock, configs,
                   udp_socket_bound, udp_init_attempted, now, calls>>

\* lines 959-968: the port is closed and, under state_lock, the device is
\* marked disconnected
listener_cleanup(l) ==
    /\ pc[l] = "sl_cleanup"
    /\ state_lock = None
    /\ devices_state' =
         IF loc[l].dev \in Devices
         THEN [devices_state EXCEPT ![loc[l].dev] = [@ EXCEPT !.connected = FALSE]]
         ELSE devices_state
    /\ Go(l, "sl_exit_emit")
    /\ UNCHANGED <<serial_connections, state_lock, serial_lock, configs,
                   udp_socket_bound, udp_init_attempted, now, calls, loc>>

\* a listener that ends by clearing the whole connection table; the code
\* does not do this
listener_finally_all_ports(l) ==
    /\ pc[l] = "sl_finally"
    /\ serial_lock = None
    /\ serial_connections' = [p \in DOMAIN serial_connections |-> NoConn]
    /\ pc' = [pc EXCEPT ![l] = "dead"]
    /\ loc' = [loc EXCEPT ![l] = IdleLoc]
    /\ UNCHANGED <<devices_state, state_lock, serial_lock, configs,
                   udp_socket_bound, udp_init_attempted, now, calls>>

\* lines 975-978: under serial_lock, the port's entry is deleted if there is
\* one; the thread ends
listener_finally(l) ==
    /\ pc[l] = "sl_finally"
    /\ serial_lock = None
    /\ serial_connections' = [serial_connections EXCEPT ![loc[l].sport] = NoConn]
    /\ pc' = [pc EXCEPT ![l] = "dead"]
    /\ loc' = [loc EXCEPT ![l] = IdleLoc]
    /\ UNCHANGED <<devices_state, state_lock, serial_lock, configs,
                   udp_socket_bound, udp_init_attempted, now, calls>>


(***************************************************************************)
(* connection_monitor_loop, lines 702-722.                                 *)
(***************************************************************************)
\* a monitor that times a device out as soon as its silence reaches the
\* timeout (>= for the > of line 716); the code does not do this
TimedOutAtThreshold(st) ==
    /\ st.connected
    /\ st.last_rx > 0
    /\ now - st.last_rx >=
         (IF st.connection_method = "usb" THEN USB_TIMEOUT_THRESHOLD ELSE TIMEOUT_THRESHOLD)

\* lines 709-716: the device is connected and its last frame is older than
\* the timeout of its connection method
TimedOut(st) ==
    /\ st.connected
    /\ st.last_rx > 0
    /\ now - st.last_rx >
         (IF st.connection_method = "usb" THEN USB_TIMEOUT_THRESHOLD ELSE TIMEOUT_THRESHOLD)

\* the first timed-out device at or after place i of the registry, 0 if none
RECURSIVE NextTimedOut(_)
NextTimedOut(i) ==
    IF i > Len(DeviceOrder) THEN 0
    ELSE IF TimedOut(devices_state[DeviceOrder[i]]) THEN i
    ELSE NextTimedOut(i + 1)

\* lines 705-722: the sweep takes state_lock and walks the registry up to the
\* first timed-out device, which it marks disconnected before it calls
\* emit_device_update with state_lock held; with none left it releases
\* state_lock and sleeps.  From "mon_loop" the walk goes on after an emission.
connection_monitor_loop(t) ==
    LET i == NextTimedOut(IF pc[t] = "mon_loop" THEN loc[t].idx ELSE 1) IN
    /\ pc[t] \in {"mon_sleep", "mon_loop"}
    /\ pc[t] = "mon_sleep" => (now >= loc[t].wake /\ state_lock = None)
    /\ IF i = 0
       THEN /\ state_lock' = None
            /\ Go(t, "mon_sleep")
            /\ loc' = [loc EXCEPT ![t] = [@ EXCEPT !.wake = now + HEARTBEAT_INTERVAL, !.idx = 0]]
            /\ UNCHANGED devices_state
       ELSE /\ state_lock' = t
            /\ devices_state' = [devices_state EXCEPT ![DeviceOrder[i]] =
                    [@ EXCEPT !.connected = FALSE, !.ip = None]]
            /\ Go(t, "mon_emit")
            /\ loc' = [loc EXCEPT ![t] = [@ EXCEPT !.dev = DeviceOrder[i], !.idx = i + 1]]
    /\ UNCHANGED <<serial_connections, serial_lock, configs,
                   udp_socket_bound, udp_init_attempted, now, calls>>

(***************************************************************************)
(* emit_device_update(device_name), lines 119-126: it takes state_lock,    *)
(* emits the device's record and releases state_lock.  The caller then     *)
(* goes on from the place of the call.                                     *)
(***************************************************************************)
EmitCallSites == {"cs_emit", "ds_emit", "sn_emit", "un_emit", "hs_emit", "sl_exit_emit", "mon_emit"}

\* handle_serial_message after its emit_device_update, lines 847-871: what a
\* message that is neither a discovery response nor telemetry emits
SerialStatusEmitted(e) ==
    LET kind == SerialKind(e.msg, e.dev) IN
    CASE kind = "recovery" -> Emitted(e, "recovery", e.dev)
      [] kind = "nvmdump" ->
           IF Len(Split(Tail(e.msg), ":")) >= 2
           THEN Emitted(e, "nvm_dump", KeyOf(Lower(Split(Tail(e.msg), ":")[1])))
           ELSE e
      [] kind = "status" -> Emitted(e, "status_message", e.dev)
      [] kind = "unhandled" -> Emitted(e, "log_unhandled", e.dev)
      [] OTHER -> e

emit_device_update(t) ==
    LET site == pc[t]
        e == UpdateEmitted(loc[t], IF site = "ds_emit" THEN loc[t].dkey ELSE loc[t].dev)
    IN
    /\ site \in EmitCallSites
    /\ state_lock = None
    /\ CASE site = "cs_emit" ->
              \* connect_serial_device, line 1002
              Go(t, "cs_spawn") /\ loc' = [loc EXCEPT ![t] = e]
         [] site = "ds_emit" ->
              \* disconnect_serial_device, lines 1036-1038
              disconnect_return(t, e, "True")
         [] site = "sn_emit" ->
              \* switch_to_network, lines 1065-1066
              ReturnFrom(t, e, "True")
         [] site = "un_emit" ->
              \* handle_network_message, lines 582 and 617
              ReturnFrom(t, e, "None")
         [] site = "hs_emit" ->
              \* handle_serial_message, line 819
              IF SerialKind(e.msg, e.dev) \in {"discovery", "telem"}
              THEN Go(t, "hs_class") /\ loc' = [loc EXCEPT ![t] = e]
              ELSE Go(t, "sl_read") /\ loc' = [loc EXCEPT ![t] = SerialStatusEmitted(e)]
         [] site = "sl_exit_emit" ->
              \* serial_listener_thread, line 970
              Go(t, "sl_finally") /\ loc' = [loc EXCEPT ![t] = e]
         [] site = "mon_emit" ->
              \* connection_monitor_loop, line 720
              Go(t, "mon_loop") /\ loc' = [loc EXCEPT ![t] = e]
    /\ serial_lock' = IF site = "ds_emit" THEN None ELSE serial_lock
    /\ UNCHANGED <<devices_state, serial_connections, state_lock, configs,
                   udp_socket_bound, udp_init_attempted, now, calls>>

(***************************************************************************)
(* Start-up, lines 1301-1313, and the clock.                               *)
(***************************************************************************)
\* start_background_threads: init_udp_socket (lines 350-374) binds the socket
\* (ok) or fails; the receive loop ends at once without a bound socket
\* (lines 673-676); the request workers start to serve
start_background_threads(ok) ==
    /\ pc["mon"] = "boot"
    /\ udp_init_attempted' = init_udp_socket(ok).attempted
    /\ udp_socket_bound' = init_udp_socket(ok).bound
    /\ pc' = [t \in DOMAIN pc |->
                IF t = "mon" THEN "mon_sleep"
                ELSE IF t = "udp" THEN (IF init_udp_socket(ok).bound THEN "idle" ELSE "dead")
                ELSE IF t \in Workers THEN "idle"
                ELSE pc[t]]
    /\ UNCHANGED <<devices_state, serial_connections, state_lock, serial_lock, configs,
                   now, calls, loc>>

\* the lock a thread at position p is about to take
TakesStateLock(p) ==
    p \in EmitCallSites \cup {"cs_state", "ds_state", "su_lock", "un_telem", "hs_class", "sl_cleanup",
                           "dd_lock"}
TakesSerialLock(p) == p \in {"sn_disc", "ss_lock", "sl_store", "sl_check", "sl_finally"}
\* positions at which a thread waits for input or for its sleep to end
WaitingPcs == {"boot", "idle", "dead", "mon_sleep", "sl_read", "sl_check"}

\* thread t is inside a call and cannot take its next step: the lock it is
\* about to take is held
Blocked(t) ==
    \/ TakesStateLock(pc[t]) /\ state_lock # None
    \/ TakesSerialLock(pc[t]) /\ serial_lock # None

\* half a second passes.  Code runs in no time: the clock advances only when
\* every thread waits for input, sleeps or is blocked on a lock, and the
\* monitor, once its sleep has ended, runs before the clock advances again
\* unless it is blocked.
Tick(limit) ==
    /\ udp_init_attempted
    /\ now < limit
    /\ \A t \in DOMAIN pc : pc[t] \in WaitingPcs \/ Blocked(t)
    /\ pc["mon"] = "mon_sleep" /\ now >= loc["mon"].wake => state_lock # None
    /\ now' = now + 1
    /\ UNCHANGED <<devices_state, serial_connections, state_lock, serial_lock, configs,
                   udp_socket_bound, udp_init_attempted, calls, pc, loc>>


(***************************************************************************)
(* The environment: datagrams, serial lines, saved configurations.         *)
(***************************************************************************)
\* <ID>_TELEM: with one key=value pair and with two
TelemOne(id) == <<id, "_", "TELEM:", "psi", "=", "12.345">>
TelemTwo(id) == TelemOne(id) \o <<";", "mode", "=", "1">>
DiscoveryResponse(id) ==
    <<"DISCOVERY_RESPONSE:", " ", "DEVICE_ID", "=", id, " ", "PORT", "=", "8889",
      " ", "FW", "=", "1", ".", "2">>
DeviceStatus(id) == <<id, "_", "DONE:">>
GeneralStatus == <<"INFO:", "ok">>

\* the datagrams and serial lines of the environment: one of each branch of
\* the two handlers
AllDatagrams ==
    {TelemOne("PRESSBOI"), TelemTwo("PRESSBOI"), TelemTwo("FILLHEAD"),
     DiscoveryResponse("PRESSBOI"), DeviceStatus("PRESSBOI"), GeneralStatus,
     <<"RECOVERY:", "x">>, <<"NVMDUMP:", "PRESSBOI", ":", "x">>, <<"hello">>,
     TelemTwo("GHOST"), DiscoveryResponse("GHOST")}
AllSerialLines ==
    {TelemTwo("PRESSBOI"), DiscoveryResponse("PRESSBOI"), DeviceStatus("PRESSBOI"),
     <<"RECOVERY:", "x">>, <<"NVMDUMP:", "PRESSBOI", ":", "x">>, <<"hello">>,
     <<"CHUNK_", "2", "/", "2", ":", "b">>, <<"CHUNK_", "1", "/", "2", ":", "a", " ">>}
\* the ones that reach the registry, for the specification of all threads
Datagrams ==
    {TelemTwo("PRESSBOI"), DiscoveryResponse("PRESSBOI"), DeviceStatus("PRESSBOI"), GeneralStatus}
SerialLines == {TelemTwo("PRESSBOI"), DeviceStatus("PRESSBOI"), <<"hello">>}

\* connections.json as an earlier run can have left it, lines 299-310
InitConfigs ==
    {<<>>, [d \in {"pressboi"} |-> [connection_method |-> "usb", serial_port |-> "COM3"]]}

\* apply_saved_connection_configs, lines 312-319, on the records
\* load_device_definitions has created
apply_saved_connection_configs(cfg) ==
    [d \in Devices |->
        IF d \in DOMAIN cfg
        THEN [NewDeviceState EXCEPT !.connection_method = cfg[d].connection_method,
                                    !.serial_port = cfg[d].serial_port]
        ELSE NewDeviceState]

Threads == Workers \cup Listeners \cup {"mon", "udp"}

Init ==
    /\ configs \in InitConfigs
    /\ devices_state = apply_saved_connection_configs(configs)
    /\ serial_connections = [p \in SerialPorts |-> NoConn]
    /\ state_lock = None
    /\ serial_lock = None
    /\ udp_socket_bound = FALSE
    /\ udp_init_attempted = FALSE
    /\ now = 1
    /\ pc = [t \in Threads |-> IF t \in Listeners THEN "dead" ELSE "boot"]
    /\ loc = [t \in Threads |-> IdleLoc]
    /\ calls = [t \in Threads |-> 0]

\* udp_receive_loop, lines 681-688: a datagram is received, decoded and
\* stripped, and handed to handle_network_message
udp_receive_loop(data, source_ip) ==
    handle_network_message("udp", Strip(data), source_ip)

\* the environment's moves, bounded
Request(t, requests) == pc[t] = "idle" /\ calls[t] < requests[t]
Datagram(max) == calls["udp"] < max
Line(l) == calls[l] < MaxLines

\* With no device connected nothing the program does depends on the time:
\* last_rx is read by the monitor alone and of connected devices alone (lines
\* 708-716), and whatever sets connected to true sets last_rx to the time of
\* that moment (lines 571-575, 601-604, 808-810).  Where all threads run, the
\* clock therefore advances only while some device is connected.
TickWhileConnected(limit) ==
    /\ \E d \in Devices : devices_state[d].connected
    /\ Tick(limit)

\* the steps of all threads, with the clock running up to limit and worker t
\* serving requests[t] requests
NextOf(limit, requests) ==
    \/ \E ok \in BOOLEAN : start_background_threads(ok)
    \/ TickWhileConnected(limit)
    \/ connection_monitor_loop("mon")
    \/ \E t \in Threads : emit_device_update(t)
    \/ \E data \in Datagrams, a \in SourceIps : Datagram(MaxDatagrams) /\ udp_receive_loop(data, a)
    \/ network_telemetry("udp")
    \/ \E t \in Workers, p \in SerialPorts, d \in Devices : Request(t, requests) /\ connect_serial_device(t, p, d)
    \/ \E t \in Workers : connect_state(t)
    \/ \E t \in Workers, l \in Listeners : connect_spawn(t, l)
    \/ \E t \in Workers : connect_save(t)
    \/ \E t \in Workers, p \in SerialPorts : Request(t, requests) /\ disconnect_serial_device(t, p)
    \/ \E t \in Workers : disconnect_state(t)
    \/ \E t \in Workers, d \in Devices : Request(t, requests) /\ switch_to_network(t, d)
    \/ \E t \in Workers : switch_disconnect(t)
    \/ \E t \in Workers : switch_after_disconnect(t)
    \/ \E t \in Workers : switch_save(t)
    \/ \E t \in Workers, d \in Devices : Request(t, requests) /\ send_command(t, d)
    \/ \E t \in Workers : send_command_port(t)
    \/ \E t \in Workers, ok \in BOOLEAN : send_udp_init(t, ok)
    \/ \E t \in Workers : send_udp_lock(t)
    \/ \E t \in Workers, ok \in BOOLEAN : send_udp_sendto(t, ok)
    \/ \E t \in Workers, ok \in BOOLEAN : send_serial_lock(t, ok)
    \/ \E t \in Workers, ok \in BOOLEAN : send_serial_temp(t, ok)
    \/ \E l \in Listeners, ok \in BOOLEAN : listener_open(l, ok)
    \/ \E l \in Listeners : listener_store(l)
    \/ \E l \in Listeners : listener_check(l)
    \/ \E l \in Listeners, raw \in SerialLines : Line(l) /\ listener_read(l, raw)
    \/ \E l \in Listeners : listener_poll(l)
    \/ \E l \in Listeners : listener_error(l)
    \/ \E l \in Listeners : handle_serial_class(l)
    \/ \E l \in Listeners : listener_cleanup(l)
    \/ \E l \in Listeners : listener_finally(l)

\* two workers serve requests side by side, over a short time
Next == NextOf(ShortTime, [t \in Workers |-> MaxRequests])
Spec == Init /\ [][Next]_vars

\* one worker serves requests, over a time long enough for timeouts
NextLife == NextOf(MaxTime, [t \in Workers |-> IF t = "w1" THEN LifeRequests ELSE 0])
SpecLife == Init /\ [][NextLife]_vars

\* the receive path and the monitor alone, over a longer time
NextNet ==
    \/ \E ok \in BOOLEAN : start_background_threads(ok)
    \/ Tick(MaxTime)
    \/ connection_monitor_loop("mon")
    \/ \E t \in Threads : emit_device_update(t)
    \/ \E data \in AllDatagrams, a \in SourceIps : Datagram(MaxFrames) /\ udp_receive_loop(data, a)
    \/ network_telemetry("udp")

SpecNet == Init /\ [][NextNet]_vars


(***************************************************************************)
(* parse_telemetry on generated payloads: the receive loop has taken up a  *)
(* telemetry datagram for pressboi, a network device, and is about to      *)
(* parse it.                                                               *)
(***************************************************************************)
PayloadKeys == {<<"psi">>, <<"mode">>, <<"note">>, <<"aux">>}
PayloadValues == {<<"12.345">>, <<"1">>, <<"7">>}
PayloadPairs == PayloadKeys \X PayloadValues
\* the sequences of 1..MaxPairs pairs
PairLists == UNION {[1..n -> PayloadPairs] : n \in 1..MaxPairs}
\* the two wire formats: the key-value separator and the pair separator
WireFormats == {<<"=", ";">>, <<":", ",">>}

RECURSIVE PayloadText(_, _)
PayloadText(pairs, fmt) ==
    LET first == pairs[1][1] \o <<fmt[1]>> \o pairs[1][2]
    IN  IF Len(pairs) = 1 THEN first
        ELSE first \o <<fmt[2]>> \o PayloadText(Tail(pairs), fmt)
TelemFrame(id, pairs, fmt) == <<id, "_", "TELEM:">> \o PayloadText(pairs, fmt)

\* the state after start_background_threads and the first step of
\* handle_network_message for the frame, from a registry with no saved
\* configuration
InitParse ==
    \E pairs \in PairLists, fmt \in WireFormats, a \in SourceIps :
        /\ configs = <<>>
        /\ devices_state = [apply_saved_connection_configs(<<>>) EXCEPT
                               !["pressboi"] = [@ EXCEPT !.connected = TRUE, !.ip = a, !.last_rx = 1]]
        /\ serial_connections = [p \in SerialPorts |-> NoConn]
        /\ state_lock = None
        /\ serial_lock = None
        /\ udp_socket_bound = TRUE
        /\ udp_init_attempted = TRUE
        /\ now = 1
        /\ calls = [t \in Threads |-> IF t = "udp" THEN 1 ELSE 0]
        /\ pc = [t \in Threads |->
                    IF t \in Listeners THEN "dead"
                    ELSE IF t = "mon" THEN "mon_sleep"
                    ELSE IF t = "udp" THEN "un_telem"
                    ELSE "idle"]
        /\ loc = [t \in Threads |->
                    IF t = "udp"
                    THEN [IdleLoc EXCEPT !.op = "telem", !.ip = a, !.dev = "pressboi",
                                         !.msg = TelemFrame("PRESSBOI", pairs, fmt)]
                    ELSE IdleLoc]

NextParse ==
    \/ network_telemetry("udp")
    \/ \E t \in Threads : emit_device_update(t)

SpecParse == InitParse /\ [][NextParse]_vars

\* C9: once a telemetry frame whose payload is one or more pairs in either
\* wire format has been parsed, every key of the payload is in the parse
\* result with a raw value of the payload, together with its _formatted key
\* if the key is in the device's schema and without it if not.
SchemaKeysParsed ==
    \A pairs \in PairLists, fmt \in WireFormats :
        (pc["udp"] = "un_emit" /\ loc["udp"].msg = TelemFrame("PRESSBOI", pairs, fmt)) =>
            LET telemetry == devices_state["pressboi"].telemetry IN
            \A i \in 1..Len(pairs) :
                LET k == pairs[i][1] IN
                /\ k \in DOMAIN telemetry
                /\ telemetry[k] \in {pairs[j][2] : j \in {n \in 1..Len(pairs) : pairs[n][1] = k}}
                /\ (FormattedKey(k) \in DOMAIN telemetry) <=> (k \in DOMAIN Schema("pressboi"))


\* the number of events ev about device d among emits
RECURSIVE CountEmits(_, _, _)
CountEmits(emits, ev, d) ==
    IF emits = <<>> THEN 0
    ELSE (IF Head(emits) = <<ev, d>> THEN 1 ELSE 0) + CountEmits(Tail(emits), ev, d)

\* C10: when the receive path has handled the datagram PRESSBOI_TELEM:psi=12.345
\* from source ip A for pressboi, a network device, the registry has
\* connected = true, ip = A, last_rx = now, telemetry.psi = 12.345 and
\* telemetry.psi_formatted, and the handling has emitted exactly one
\* telemetry event for pressboi.
SinglePairTelemetryStored ==
    [][(/\ pc["udp"] # "idle"
        /\ pc'["udp"] = "idle"
        /\ loc["udp"].msg = TelemOne("PRESSBOI")
        /\ devices_state'["pressboi"].connection_method = "network")
       => LET d == devices_state'["pressboi"] IN
          /\ d.connected
          /\ d.ip = loc["udp"].ip
          /\ d.last_rx = now'
          /\ <<"psi">> \in DOMAIN d.telemetry
          /\ d.telemetry[<<"psi">>] = <<"12.345">>
          /\ FormattedKey(<<"psi">>) \in DOMAIN d.telemetry
          /\ CountEmits(loc'["udp"].emits, "telemetry", "pressboi") = 1]_vars


(***************************************************************************)
(* Chunk reassembly in a running listener: connect_serial_device("COM3",   *)
(* "pressboi") has returned and its listener waits for a line; the device  *)
(* sends the chunk lines of messages, those of one message in any order.   *)
(***************************************************************************)
\* the payload of chunk i: "hello ", "world", "!"
ChunkPayload(i) ==
    CASE i = 1 -> <<"hello", " ">>
      [] i = 2 -> <<"world">>
      [] OTHER -> <<"!">>
Numerals == <<"1", "2", "3", "4">>
\* the line CHUNK_i/n:<payload of chunk i>
ChunkLine(i, n) == <<"CHUNK_", Numerals[i], "/", Numerals[n], ":">> \o ChunkPayload(i)
\* the payloads of chunks 1..n, concatenated in increasing chunk number
RECURSIVE ChunkedMessage(_)
ChunkedMessage(n) == IF n = 0 THEN <<>> ELSE ChunkedMessage(n - 1) \o ChunkPayload(n)

InitChunk ==
    /\ configs = SavedConfig(<<>>, "pressboi", "usb", "COM3")
    /\ devices_state = [apply_saved_connection_configs(configs) EXCEPT
                           !["pressboi"] = [@ EXCEPT !.serial_port = "COM3"]]
    /\ serial_connections = [p \in SerialPorts |-> [NewConn("pressboi", "l1") EXCEPT !.serial = "l1"]]
    /\ state_lock = None
    /\ serial_lock = None
    /\ udp_socket_bound = TRUE
    /\ udp_init_attempted = TRUE
    /\ now = 1
    /\ calls = [t \in Threads |-> IF t = "w1" THEN 1 ELSE 0]
    /\ pc = [t \in Threads |->
                IF t = "l1" THEN "sl_read"
                ELSE IF t = "l2" THEN "dead"
                ELSE IF t = "mon" THEN "mon_sleep"
                ELSE "idle"]
    /\ loc = [t \in Threads |->
                IF t = "l1" THEN [IdleLoc EXCEPT !.op = "listener", !.dev = "pressboi", !.sport = "COM3"]
                ELSE IF t = "w1"
                THEN [IdleLoc EXCEPT !.op = "connect", !.ret = "True",
                                     !.emits = <<<<"device_update", "pressboi">>>>]
                ELSE IdleLoc]

\* the device sends chunk i of n: a chunk of the message under way that it
\* has not sent yet, or the first chunk sent of a new message
SendsChunk(l, i, n) ==
    LET buf == loc[l].chunk_buffer IN
    /\ calls[l] < MaxChunkLines
    /\ buf # <<>> => buf[1][2] = n
    /\ \A j \in 1..Len(buf) : buf[j][1] # i

NextChunk ==
    \/ \E l \in Listeners, n \in 1..MaxChunks, i \in 1..MaxChunks :
          i <= n /\ SendsChunk(l, i, n) /\ listener_read(l, ChunkLine(i, n))
    \/ \E t \in Threads : emit_device_update(t)
    \/ \E l \in Listeners : listener_poll(l)
    \/ \E l \in Listeners : listener_check(l)

SpecChunk == InitChunk /\ [][NextChunk]_vars

\* C8: when a listener reads a chunk line of a message of n chunks, in
\* whatever order the chunks arrive, the line that completes the message is
\* followed by the dispatch of one line, the payloads of chunks 1..n
\* concatenated in increasing chunk number, with the buffer empty afterwards,
\* and a line that does not complete it dispatches nothing and is buffered.
ChunksReassembled ==
    [][\A l \in Listeners :
        calls'[l] = calls[l] + 1 =>
            LET buf == loc[l].chunk_buffer
                after == loc'[l].chunk_buffer
                dispatched(n) == /\ pc'[l] = "hs_emit"
                                 /\ loc'[l].msg = Strip(ChunkedMessage(n))
                                 /\ after = <<>>
                buffered == pc'[l] = "sl_read" /\ Len(after) = Len(buf) + 1
            IN  IF buf = <<>> THEN dispatched(1) \/ buffered
                ELSE IF Len(buf) + 1 = buf[1][2] THEN dispatched(buf[1][2])
                ELSE buffered]_vars


\* a step of the UDP receive path: the receive loop takes up a datagram or
\* goes on handling one
UdpReceiveStep == calls'["udp"] # calls["udp"] \/ (pc["udp"] # "boot" /\ pc'["udp"] # pc["udp"])

\* C1: no step of the UDP receive path changes last_rx, ip or connected of a
\* device whose connection method is usb.
UsbDeviceUntouchedByUdp ==
    [][UdpReceiveStep =>
        \A d \in Devices :
            devices_state[d].connection_method = "usb" =>
                /\ devices_state'[d].last_rx = devices_state[d].last_rx
                /\ devices_state'[d].ip = devices_state[d].ip
                /\ devices_state'[d].connected = devices_state[d].connected]_vars


\* C2: a command is sent as a UDP datagram only while the device's connection
\* method is network, and written to a serial port only while it is usb,
\* whatever connect and use_network calls run beside the dispatch.
CommandsStayOnTransport ==
    [][\A t \in Workers :
        /\ (pc[t] = "su_send" /\ loc[t].ip # None /\ loc'[t].ret = "True")
             => devices_state[loc[t].dev].connection_method = "network"
        /\ (pc[t] \in {"ss_lock", "ss_temp"} /\ pc'[t] = "idle" /\ loc'[t].ret = "True")
             => devices_state[loc[t].dev].connection_method = "usb"]_vars

\* the timeout of a connection method (3 s and 6 s) and the monitor period
\* (0.5 s), in units of 0.5 s
TimeoutOf(method) == IF method = "usb" THEN 12 ELSE 6
MonitorPeriod == 1

\* C3: in every reachable state a connected device has received a frame
\* within the timeout of its connection method plus one monitor period.
ConnectedIsFresh ==
    \A d \in Devices :
        devices_state[d].connected =>
            now - devices_state[d].last_rx
                <= TimeoutOf(devices_state[d].connection_method) + MonitorPeriod

\* C4: the monitor, having marked a timed-out device disconnected, goes on to
\* emit the device_update, finish the sweep and run the next one: it is never
\* left waiting for state_lock while it holds state_lock itself.
MonitorSweepGoesOn ==
    pc["mon"] = "mon_emit" => state_lock # "mon"

\* device d is connected and overdue: no frame for longer than its timeout
Overdue(d) ==
    /\ devices_state[d].connected
    /\ devices_state[d].last_rx > 0
    /\ now - devices_state[d].last_rx > TimeoutOf(devices_state[d].connection_method)
\* the steps that set connected to false
MonitorTimesOut(d) ==
    pc["mon"] \in {"mon_sleep", "mon_loop"} /\ pc'["mon"] = "mon_emit" /\ loc'["mon"].dev = d
ConnectResets(d) ==
    \E t \in Workers : pc[t] = "cs_state" /\ pc'[t] = "cs_emit" /\ loc[t].dev = d
DisconnectResets(d) ==
    \E t \in Workers : pc[t] = "ds_state" /\ pc'[t] = "ds_emit" /\ loc[t].dkey = d
UseNetworkResets(d) ==
    \E t \in Workers : pc[t] \in {"idle", "sn_reset"} /\ pc'[t] = "sn_save" /\ loc'[t].dev = d
ListenerExitResets(d) ==
    \E l \in Listeners : pc[l] = "sl_cleanup" /\ pc'[l] = "sl_exit_emit" /\ loc[l].dev = d

UseNetworkReturns ==
    \A t \in Workers :
        (loc[t].op = "use_network" /\ loc[t].nested) =>
            /\ pc[t] = "ds_state" => state_lock # t
            /\ pc[t] = "sn_emit" =>
                 /\ serial_connections[loc[t].sport] = NoConn
                 /\ devices_state[loc[t].dev].connection_method = "network"
                 /\ devices_state[loc[t].dev].serial_port = None
                 /\ ~devices_state[loc[t].dev].connected


(***************************************************************************)
(* The serial side alone: two workers serve connect and disconnect         *)
(* requests and the listeners run; no datagram arrives and no time passes. *)
(***************************************************************************)
NextUsb ==
    \/ \E ok \in BOOLEAN : start_background_threads(ok)
    \/ \E t \in Threads : emit_device_update(t)
    \/ \E t \in Workers, p \in SerialPorts, d \in Devices :
          Request(t, [w \in Workers |-> UsbRequests]) /\ connect_serial_device(t, p, d)
    \/ \E t \in Workers : connect_state(t)
    \/ \E t \in Workers, l \in Listeners : connect_spawn(t, l)
    \/ \E t \in Workers : connect_save(t)
    \/ \E t \in Workers, p \in SerialPorts :
          Request(t, [w \in Workers |-> UsbRequests]) /\ disconnect_serial_device(t, p)
    \/ \E t \in Workers : disconnect_state(t)
    \/ \E l \in Listeners, ok \in BOOLEAN : listener_open(l, ok)
    \/ \E l \in Listeners : listener_store(l)
    \/ \E l \in Listeners : listener_check(l)
    \/ \E l \in Listeners : listener_poll(l)
    \/ \E l \in Listeners : listener_error(l)
    \/ \E l \in Listeners : listener_cleanup(l)
    \/ \E l \in Listeners : listener_finally(l)

SpecUsb == Init /\ [][NextUsb]_vars

\* the listener threads that are alive and serve port p
RunningListeners(p) == {l \in Listeners : pc[l] # "dead" /\ loc[l].sport = p}

\* C7: a connect call for a port that an earlier connect has left connected
\* (the port has its record) returns success without spawning a listener, and
\* exactly one listener is running for the port.
ConnectIdempotent ==
    [][\A t \in Workers, p \in SerialPorts :
        (/\ pc[t] = "idle"
         /\ calls'[t] = calls[t] + 1
         /\ loc'[t].op = "connect"
         /\ serial_connections[p] # NoConn)
        => /\ pc'[t] = "idle"
           /\ loc'[t].ret = "True"
           /\ \A l \in Listeners : pc'[l] = pc[l]
           /\ Cardinality(RunningListeners(p)) = 1]_vars

(***************************************************************************)
(* The serial side when the UDP bind has failed.                           *)
(***************************************************************************)
\* init_udp_socket has run and the bind has failed
BindFailed == udp_init_attempted /\ ~udp_socket_bound

\* C11: when the UDP bind has failed, a connect call for a port without a
\* connection record still returns success with the record stored and its
\* listener thread spawned and alive, and a command dispatched to a USB
\* device with a configured serial port still goes to the serial write of
\* send_serial_command and is not answered by the UDP side.
SerialWorksWithoutUdp ==
    [][BindFailed =>
        \A t \in Workers :
            /\ (pc[t] = "cs_save" /\ pc'[t] = "idle") =>
                  /\ loc'[t].ret = "True"
                  /\ serial_connections'[loc[t].sport] # NoConn
                  /\ pc'[serial_connections'[loc[t].sport].thread] # "dead"
            /\ (pc[t] = "sc_port" /\ pc'[t] # "sc_port"
                    /\ devices_state[loc[t].dev].serial_port # None) =>
                  /\ pc'[t] = "ss_lock"
                  /\ loc'[t].sport = devices_state[loc[t].dev].serial_port]_vars

\* the bind has failed, one request has connected a port and another has
\* written a command to a USB device's serial port
ConnectedAndSentWithoutUdp ==
    /\ BindFailed
    /\ \E t \in Workers : pc[t] = "idle" /\ loc[t].op = "connect" /\ loc[t].ret = "True"
    /\ \E t \in Workers : pc[t] = "idle" /\ loc[t].op = "send" /\ loc[t].ret = "True"
    /\ \E p \in SerialPorts : serial_connections[p] # NoConn

(***************************************************************************)
(* The UDP side: the receive path, command dispatch, use_network and       *)
(* discovery requests, with no serial connection made (so that use_network *)
(* finds no active port) and no time passing.                              *)
(***************************************************************************)
NextUdp ==
    \/ \E ok \in BOOLEAN : start_background_threads(ok)
    \/ \E t \in Threads : emit_device_update(t)
    \/ \E data \in Datagrams, a \in SourceIps : Datagram(MaxDatagrams) /\ udp_receive_loop(data, a)
    \/ network_telemetry("udp")
    \/ \E t \in Workers, d \in Devices \cup {"ghost"} :
          Request(t, [w \in Workers |-> UdpRequests]) /\ send_command(t, d)
    \/ \E t \in Workers : send_command_port(t)
    \/ \E t \in Workers, ok \in BOOLEAN : send_udp_init(t, ok)
    \/ \E t \in Workers : send_udp_lock(t)
    \/ \E t \in Workers, ok \in BOOLEAN : send_udp_sendto(t, ok)
    \/ \E t \in Workers, ok \in BOOLEAN : send_serial_lock(t, ok)
    \/ \E t \in Workers, ok \in BOOLEAN : send_serial_temp(t, ok)
    \/ \E t \in Workers, ok \in BOOLEAN, fails \in SendFailures :
          Request(t, [w \in Workers |-> UdpRequests]) /\ trigger_discovery(t, ok, fails)
    \/ \E t \in Workers, d \in Devices :
          Request(t, [w \in Workers |-> UdpRequests]) /\ switch_to_network(t, d)
    \/ \E t \in Workers : switch_save(t)

SpecUdp == Init /\ [][NextUdp]_vars

\* C12: the UDP bind is attempted at most once.  udp_socket_bound changes
\* only in the one call of init_udp_socket that attempts the bind, and once
\* the bind has failed every later step leaves the socket unbound; a command
\* for a network device is then answered False at the socket test of
\* send_udp_message, and no dispatch gets as far as the sendto.
BindAttemptedOnce ==
    [][/\ udp_socket_bound' # udp_socket_bound => ~udp_init_attempted
       /\ udp_init_attempted => udp_init_attempted'
       /\ BindFailed =>
            /\ BindFailed'
            /\ \A t \in Workers :
                 /\ (pc[t] = "su_init" /\ pc'[t] # "su_init") =>
                       (pc'[t] = "idle" /\ loc'[t].ret = "False")
                 /\ pc'[t] \notin {"su_lock", "su_send"}
                 /\ (loc'[t].op = "discover" /\ calls'[t] # calls[t]) =>
                       loc'[t].ret = "NoBroadcast"]_vars

\* after a failed bind a command for a network device has been answered False
\* and a discovery request has sent no broadcast
SendRefusedAfterFailedBind ==
    /\ BindFailed
    /\ \E t \in Workers : pc[t] = "idle" /\ loc[t].op = "send" /\ loc[t].ret = "False"
    /\ \E t \in Workers : pc[t] = "idle" /\ loc[t].op = "discover" /\ loc[t].ret = "NoBroadcast"

(***************************************************************************)
(* Frames of the UDP receive path.                                         *)
(***************************************************************************)
\* the receive loop handles a discovery response or a telemetry frame whose
\* device id is no key of devices_state
HandlesUnknownId(l) ==
    l.op \in {"discovery", "telem"} /\ l.dev \notin Devices \cup {None}

\* C13: a discovery response or telemetry frame with an unknown device id
\* changes nothing in the registry, and when its handling ends it has emitted
\* no telemetry and no device_update event for that id and has logged the
\* frame as unhandled.
UnknownIdIgnored ==
    [][/\ (UdpReceiveStep /\ (HandlesUnknownId(loc["udp"]) \/ HandlesUnknownId(loc'["udp"])))
            => devices_state' = devices_state
       /\ (HandlesUnknownId(loc["udp"]) /\ pc'["udp"] = "idle") =>
            /\ CountEmits(loc'["udp"].emits, "telemetry", loc["udp"].dev) = 0
            /\ CountEmits(loc'["udp"].emits, "device_update", loc["udp"].dev) = 0
            /\ CountEmits(loc'["udp"].emits, "log_unhandled", loc["udp"].ip) = 1]_vars

\* C14: the discovery response "DISCOVERY_RESPONSE: DEVICE_ID=<id> PORT=8889
\* FW=1.2" from source ip A for a known network device sets connected = true,
\* ip = A, port = 8889, firmware_version = 1.2 and last_rx = now and leaves
\* every other field of the device and every other device as it was; the
\* handling then ends with one device_update emitted for the device and the
\* registry untouched since.
DiscoveryStored ==
    [][\A d \in Devices :
        /\ (/\ pc["udp"] = "idle"
            /\ calls'["udp"] = calls["udp"] + 1
            /\ loc'["udp"].msg = DiscoveryResponse(UpperLexeme(d))
            /\ devices_state[d].connection_method = "network") =>
              /\ devices_state' = [devices_state EXCEPT ![d] =
                      [@ EXCEPT !.connected = TRUE, !.ip = loc'["udp"].ip, !.port = 8889,
                                !.firmware_version = <<"1", ".", "2">>, !.last_rx = now]]
              /\ loc'["udp"].ip \in SourceIps
              /\ pc'["udp"] = "un_emit"
        /\ (/\ pc["udp"] = "un_emit"
            /\ loc["udp"].op = "discovery"
            /\ loc["udp"].dev = d
            /\ pc'["udp"] # "un_emit") =>
              /\ pc'["udp"] = "idle"
              /\ CountEmits(loc'["udp"].emits, "device_update", d) = 1
              /\ devices_state' = devices_state]_vars

\* the receive path has handled a discovery response for pressboi: the
\* device_update is emitted and the registry holds the sender's address, the
\* announced port and the firmware version
DiscoveryHandled ==
    /\ pc["udp"] = "idle"
    /\ loc["udp"].op = "discovery"
    /\ CountEmits(loc["udp"].emits, "device_update", "pressboi") = 1
    /\ devices_state["pressboi"].connected
    /\ devices_state["pressboi"].ip \in SourceIps
    /\ devices_state["pressboi"].port = 8889
    /\ devices_state["pressboi"].firmware_version = <<"1", ".", "2">>
    /\ devices_state["pressboi"].last_rx = now

\* C15: a command dispatch fails without sending when it finds no route.  A
\* dispatch that is answered at once is answered "device not found", and any
\* other dispatch is for a device of the registry; a dispatch that reads a USB
\* device's serial_port and finds none is answered "not configured"; a
\* dispatch that reads a network device's ip and finds none is answered "no
\* route" before the sendto.  None of these steps changes the registry.
DispatchFailsWithoutSending ==
    [][\A t \in Workers :
        /\ (pc[t] = "idle" /\ calls'[t] # calls[t] /\ loc'[t].op = "send") =>
              /\ devices_state' = devices_state
              /\ IF pc'[t] = "idle" THEN loc'[t].ret = "NotFound"
                 ELSE loc'[t].dev \in Devices /\ pc'[t] \in {"sc_port", "su_init"}
        /\ (/\ pc[t] = "sc_port"
            /\ pc'[t] # "sc_port"
            /\ devices_state[loc[t].dev].serial_port = None) =>
              /\ pc'[t] = "idle"
              /\ loc'[t].ret = "NotConfigured"
              /\ devices_state' = devices_state
        /\ (/\ pc[t] = "su_lock"
            /\ pc'[t] # "su_lock"
            /\ devices_state[loc[t].dev].connection_method = "network"
            /\ devices_state[loc[t].dev].ip = None) =>
              /\ pc'[t] = "su_send"
              /\ loc'[t].ip = None
              /\ devices_state' = devices_state
        /\ (pc[t] = "su_send" /\ pc'[t] # "su_send" /\ loc[t].ip = None) =>
              /\ pc'[t] = "idle"
              /\ loc'[t].ret = "NoRoute"
              /\ devices_state' = devices_state]_vars

\* one dispatch has been answered "not configured" and another "no route"
DispatchesFailed ==
    /\ \E t \in Workers : pc[t] = "idle" /\ loc[t].op = "send" /\ loc[t].ret = "NotConfigured"
    /\ \E t \in Workers : pc[t] = "idle" /\ loc[t].op = "send" /\ loc[t].ret = "NoRoute"

(***************************************************************************)
(* connections.json.                                                       *)
(***************************************************************************)
\* load_connection_configs after the step has device d saved with the given
\* method and serial port, and every other entry as it was before the step
SavedAndOthersKept(d, method, sport) ==
    /\ d \in DOMAIN configs'
    /\ configs'[d] = [connection_method |-> method, serial_port |-> sport]
    /\ \A x \in DOMAIN configs \ {d} : x \in DOMAIN configs' /\ configs'[x] = configs[x]

\* C16: when a save_connection_config(id, method, serial_port) completes,
\* connections.json maps id to that method and serial port and holds every
\* other device's entry as it was saved before.
SaveRoundTrip ==
    [][\A t \in Workers :
        /\ (pc[t] = "cs_save" /\ pc'[t] # "cs_save") =>
              SavedAndOthersKept(loc[t].dev, "usb", loc[t].sport)
        /\ (pc[t] = "sn_save" /\ pc'[t] # "sn_save") =>
              SavedAndOthersKept(loc[t].dev, "network", None)]_vars

(***************************************************************************)
(* Lock ordering.                                                          *)
(***************************************************************************)
\* C17: no thread is about to take a transport lock while it holds
\* state_lock.  (The UDP send lock, socket_lock, is taken at line 407 after
\* state_lock is released at line 400; serial_lock is the transport lock a
\* thread can wait for.)
NoTransportLockUnderStateLock ==
    \A t \in Threads : state_lock = t => ~TakesSerialLock(pc[t])

\* C18: no thread is at a call of emit_device_update while it holds
\* serial_lock.
NoEmitUnderTransportLock ==
    \A t \in Threads : serial_lock = t => pc[t] \notin EmitCallSites

\* C19: no thread is at a call of emit_device_update while it holds
\* state_lock: every emission starts after the registry lock is released.
EmitAfterStateLockReleased ==
    \A t \in Threads : pc[t] \in EmitCallSites => state_lock # t

(***************************************************************************)
(* detect_device_on_port(port_name, timeout), lines 736-772, called by     *)
(* detect_serial_device, lines 1197-1207.  The ser field of the call's     *)
(* locals tells whether the Serial object the call opened is open.         *)
(***************************************************************************)
\* the call returns r; open tells whether its Serial object is left open
detect_return(t, r, open) ==
    /\ pc' = [pc EXCEPT ![t] = "idle"]
    /\ loc' = [loc EXCEPT ![t] = [IdleLoc EXCEPT !.op = "detect", !.ret = r, !.ser = open]]

\* lines 744-746: the port is opened; ok = FALSE is serial.Serial raising,
\* which the except clause of line 770 answers with None
detect_device_on_port(t, p, ok) ==
    /\ pc[t] = "idle"
    /\ IF ok
       THEN /\ Go(t, "dd_lock")
            /\ loc' = [loc EXCEPT ![t] = [IdleLoc EXCEPT !.op = "detect", !.sport = p, !.ser = TRUE]]
       ELSE detect_return(t, "None", FALSE)
    /\ UNCHANGED <<devices_state, serial_connections, state_lock, serial_lock, configs,
                   udp_socket_bound, udp_init_attempted, now>>
    /\ BeginCall(t)

\* lines 748-755: the identifier map is built under state_lock
detect_identifiers(t) ==
    /\ pc[t] = "dd_lock"
    /\ state_lock = None
    /\ Go(t, "dd_poll")
    /\ UNCHANGED <<devices_state, serial_connections, state_lock, serial_lock, configs,
                   udp_socket_bound, udp_init_attempted, now, calls, loc>>

\* lines 757-764: a line that holds an identifier of device d is read; the
\* port is closed and d returned
detect_match(t, d) ==
    /\ pc[t] = "dd_poll"
    /\ detect_return(t, d, FALSE)
    /\ UNCHANGED <<devices_state, serial_connections, state_lock, serial_lock, configs,
                   udp_socket_bound, udp_init_attempted, now, calls>>

\* lines 757 and 768-769: the timeout has elapsed with no match; the port is
\* closed and None returned
detect_timeout(t) ==
    /\ pc[t] = "dd_poll"
    /\ detect_return(t, "None", FALSE)
    /\ UNCHANGED <<devices_state, serial_connections, state_lock, serial_lock, configs,
                   udp_socket_bound, udp_init_attempted, now, calls>>

\* lines 758-759 and 770-772: in_waiting or readline raises; the except
\* clause logs the error and returns None and does not call ser.close().
\* The Serial object is then closed only if the interpreter finalizes it
\* when the call's frame is released (collected): the language leaves open
\* whether and when that happens.
detect_error(t, collected) ==
    /\ pc[t] = "dd_poll"
    /\ detect_return(t, "None", ~collected)
    /\ UNCHANGED <<devices_state, serial_connections, state_lock, serial_lock, configs,
                   udp_socket_bound, udp_init_attempted, now, calls>>

\* detect requests of two workers
NextDetect ==
    \/ \E ok \in BOOLEAN : start_background_threads(ok)
    \/ \E t \in Workers, p \in SerialPorts, ok \in BOOLEAN :
          Request(t, [w \in Workers |-> DetectRequests]) /\ detect_device_on_port(t, p, ok)
    \/ \E t \in Workers : detect_identifiers(t)
    \/ \E t \in Workers, d \in Devices : detect_match(t, d)
    \/ \E t \in Workers : detect_timeout(t)
    \/ \E t \in Workers, collected \in BOOLEAN : detect_error(t, collected)

SpecDetect == Init /\ [][NextDetect]_vars

\* C20: when detect_device_on_port has returned, the port it opened is
\* closed, whichever way it returned.
DetectClosesPort ==
    \A t \in Workers : (pc[t] = "idle" /\ loc[t].op = "detect") => ~loc[t].ser

(***************************************************************************)
(* Formatting of telemetry values.                                         *)
(***************************************************************************)
\* the numeric rule: the value as a float, times the multiplier, printed with
\* the field's precision if it has one, followed by the unit if it has one
NumericRule(details, value) ==
    LET num_value == safe_float(value) * details.multiplier
        text == IF details.precision # NoPrecision
                THEN FormatFixed(num_value, details.precision)
                ELSE FormatFloat(num_value)
    IN  IF details.unit # "" THEN text \o <<" ", details.unit>> ELSE text

\* C21: for a field of pressboi's schema that has a map and type float or
\* int, the stored display form of a parsed value v is map[v] if v is a key of
\* the map, and the numeric rule's form of v if it is not.
MapElseNumericRule ==
    \A k \in DOMAIN Schema("pressboi") :
        LET details == Schema("pressboi")[k]
            telemetry == devices_state["pressboi"].telemetry
        IN  (/\ k \in DOMAIN telemetry
             /\ details.map # NoMap
             /\ details.type \in {"float", "int"}) =>
                /\ FormattedKey(k) \in DOMAIN telemetry
                /\ telemetry[FormattedKey(k)] =
                     IF telemetry[k] \in DOMAIN details.map
                     THEN details.map[telemetry[k]]
                     ELSE NumericRule(details, telemetry[k])

(***************************************************************************)
(* Discovery responses with their tokens in every order.                   *)
(***************************************************************************)
MaxTokens == 2
DiscFrames == 2
\* the KEY=VALUE tokens a discovery response is made of; the second and the
\* third PORT token make int() raise at line 558
DiscoveryTokenSet ==
    {<<"DEVICE_ID", "=", "PRESSBOI">>, <<"PORT", "=", "8889">>, <<"PORT", "=", "x">>,
     <<"PORT", "=">>, <<"FW", "=", "1", ".", "2">>}
TokenLists == UNION {[1..n -> DiscoveryTokenSet] : n \in 0..MaxTokens}
RECURSIVE JoinTokens(_, _)
JoinTokens(tokens, n) ==
    IF n = 0 THEN <<>> ELSE JoinTokens(tokens, n - 1) \o <<" ">> \o tokens[n]
DiscoveryFrame(tokens) == <<"DISCOVERY_RESPONSE:">> \o JoinTokens(tokens, Len(tokens))

\* no DEVICE_ID token, or a PORT token whose value is no integer
Malformed(tokens) ==
    \/ \A i \in DOMAIN tokens : tokens[i][1] # "DEVICE_ID"
    \/ \E i \in DOMAIN tokens : tokens[i][1] = "PORT" /\ tokens[i] # <<"PORT", "=", "8889">>

NextDisc ==
    \/ \E ok \in BOOLEAN : start_background_threads(ok)
    \/ Tick(ShortTime)
    \/ connection_monitor_loop("mon")
    \/ \E t \in Threads : emit_device_update(t)
    \/ \E tokens \in TokenLists, a \in SourceIps :
          Datagram(DiscFrames) /\ udp_receive_loop(DiscoveryFrame(tokens), a)

SpecDisc == Init /\ [][NextDisc]_vars

\* C22: the handling of a malformed discovery response (no DEVICE_ID token,
\* or a PORT token whose value is no integer, in any token order) is one step
\* that leaves every field of every device as it was, emits nothing, and ends
\* with the receive loop ready for the next datagram.
MalformedDiscoveryIgnored ==
    [][\A tokens \in TokenLists, a \in SourceIps :
        (Malformed(tokens) /\ udp_receive_loop(DiscoveryFrame(tokens), a)) =>
            /\ devices_state' = devices_state
            /\ loc'["udp"].emits = <<>>
            /\ pc'["udp"] = "idle"
            /\ state_lock' = state_lock]_vars

\* the receive loop has handled a malformed discovery response while pressboi
\* was connected over the network: a well-formed response to a network
\* device ends with a device_update emitted
MalformedDiscoveryHandled ==
    /\ pc["udp"] = "idle"
    /\ loc["udp"].op = "discovery"
    /\ loc["udp"].emits = <<>>
    /\ \A d \in Devices : devices_state[d].connection_method = "network"
    /\ devices_state["pressboi"].connected
    /\ devices_state["pressboi"].ip \in SourceIps

(***************************************************************************)
(* Dispatch to a device the monitor has timed out.                         *)
(***************************************************************************)
\* the monitor has timed out network device d and no frame has come since
Evicted(d) ==
    /\ devices_state[d].connection_method = "network"
    /\ devices_state[d].last_rx > 0
    /\ ~devices_state[d].connected
    /\ devices_state[d].ip = None
\* state_lock is held by a thread that is itself waiting for state_lock
StateLockStuck == state_lock # None /\ TakesStateLock(pc[state_lock])

\* C23: a command dispatched to a network device the monitor has timed out is
\* answered: the dispatch, about to read the device's route under state_lock,
\* never finds state_lock held by a thread that will not release it, and so
\* reaches the test that fails it for want of an ip.
EvictedDispatchAnswered ==
    \A t \in Workers :
        (pc[t] = "su_lock" /\ Evicted(loc[t].dev)) => ~StateLockStuck

(***************************************************************************)
(* The end of a listener.                                                  *)
(***************************************************************************)
\* serial_lock is held by a thread that waits for a lock that is never
\* released
SerialLockStuck ==
    /\ serial_lock # None
    /\ \/ TakesSerialLock(pc[serial_lock])
       \/ TakesStateLock(pc[serial_lock]) /\ StateLockStuck
\* thread t waits for a lock that is never released
WaitsForever(t) ==
    \/ TakesStateLock(pc[t]) /\ StateLockStuck
    \/ TakesSerialLock(pc[t]) /\ SerialLockStuck

\* C24: once the record of its port has been removed the listener exits: on
\* its way to the end of the thread it never waits for a lock that is never
\* released.
ListenerExitsAfterDisconnect ==
    \A l \in Listeners :
        (pc[l] # "dead" /\ serial_connections[loc[l].sport] = NoConn) => ~WaitsForever(l)

(***************************************************************************)
(* Two serial ports: a worker serves connect requests for COM3 and COM4,    *)
(* the listeners read telemetry lines and meet read errors.                *)
(***************************************************************************)
PortRequests == 2
TwoPorts == {"COM3", "COM4"}

InitPorts ==
    /\ configs \in InitConfigs
    /\ devices_state = apply_saved_connection_configs(configs)
    /\ serial_connections = [p \in TwoPorts |-> NoConn]
    /\ state_lock = None
    /\ serial_lock = None
    /\ udp_socket_bound = FALSE
    /\ udp_init_attempted = FALSE
    /\ now = 1
    /\ pc = [t \in Threads |-> IF t \in Listeners THEN "dead" ELSE "boot"]
    /\ loc = [t \in Threads |-> IdleLoc]
    /\ calls = [t \in Threads |-> 0]

NextPorts ==
    \/ \E ok \in BOOLEAN : start_background_threads(ok)
    \/ \E t \in Threads : emit_device_update(t)
    \/ \E t \in Workers, p \in TwoPorts, d \in Devices :
          Request(t, [w \in Workers |-> IF w = "w1" THEN PortRequests ELSE 0])
          /\ connect_serial_device(t, p, d)
    \/ \E t \in Workers : connect_state(t)
    \/ \E t \in Workers, l \in Listeners : connect_spawn(t, l)
    \/ \E t \in Workers : connect_save(t)
    \/ \E l \in Listeners, ok \in BOOLEAN : listener_open(l, ok)
    \/ \E l \in Listeners : listener_store(l)
    \/ \E l \in Listeners : listener_check(l)
    \/ \E l \in Listeners : Line(l) /\ listener_read(l, TelemTwo("PRESSBOI"))
    \/ \E l \in Listeners : listener_poll(l)
    \/ \E l \in Listeners : listener_error(l)
    \/ \E l \in Listeners : handle_serial_class(l)
    \/ \E l \in Listeners : listener_cleanup(l)
    \/ \E l \in Listeners : listener_finally(l)

SpecPorts == InitPorts /\ [][NextPorts]_vars

EveryDestinationAttempted ==
    \A t \in Workers :
        (loc[t].op = "discover" /\ loc[t].ret = "Broadcast") =>
            loc[t].sent = DiscoveryDestinations

(***************************************************************************)
(* Chunk lines with a malformed header among the chunk lines of messages.  *)
(***************************************************************************)
\* no ":", a chunk number or a total that is no integer, and headers that are
\* not of the form n/total
MalformedChunkLines ==
    {<<"CHUNK_", "1", "/", "2", "hello">>,
     <<"CHUNK_", "x", "/", "2", ":", "hello">>,
     <<"CHUNK_", "1", "/", "x", ":", "hello">>,
     <<"CHUNK_", "1", "/", ":", "hello">>,
     <<"CHUNK_", "1", ":", "hello">>,
     <<"CHUNK_", "1", "/", "2", "/", "3", ":", "hello">>,
     <<"CHUNK_", ":", "hello">>}

NextBadChunk ==
    \/ NextChunk
    \/ \E l \in Listeners, raw \in MalformedChunkLines :
          calls[l] < MaxChunkLines /\ listener_read(l, raw)

SpecBadChunk == InitChunk /\ [][NextBadChunk]_vars

\* C27: the reading of a CHUNK_ line with a malformed header leaves the
\* reassembly buffer as it was, hands no message to handle_serial_message,
\* changes nothing in the registry, and leaves the listener reading.
MalformedChunkDiscarded ==
    [][\A l \in Listeners, raw \in MalformedChunkLines :
        listener_read(l, raw) =>
            /\ loc'[l].chunk_buffer = loc[l].chunk_buffer
            /\ loc'[l].msg = loc[l].msg
            /\ loc'[l].emits = loc[l].emits
            /\ pc'[l] = "sl_read"
            /\ devices_state' = devices_state
            /\ serial_connections' = serial_connections]_vars

\* the listener has read three lines and holds two chunks of a message that
\* is not complete: one of the lines was malformed
MalformedChunkRead ==
    /\ pc["l1"] = "sl_read"
    /\ calls["l1"] = 3
    /\ Len(loc["l1"].chunk_buffer) = 2
    /\ loc["l1"].chunk_buffer[1][2] = 3
    /\ ~devices_state["pressboi"].connected

(***************************************************************************)
(* Chunk lines on a lossy line: the device sends the chunk lines of        *)
(* messages and any of them can be lost on the way, so that the listener   *)
(* reads any chunk line after any other.                                   *)
(***************************************************************************)
NextLossyChunk ==
    \/ \E l \in Listeners, n \in 1..MaxChunks, i \in 1..MaxChunks :
          i <= n /\ calls[l] < MaxChunkLines /\ listener_read(l, ChunkLine(i, n))
    \/ \E t \in Threads : emit_device_update(t)
    \/ \E l \in Listeners : listener_poll(l)
    \/ \E l \in Listeners : listener_check(l)

SpecLossyChunk == InitChunk /\ [][NextLossyChunk]_vars

\* C28: when the reading of a chunk line hands a synthesized line to
\* handle_serial_message, the chunks it is built from (the buffer and the
\* chunk just read) all carry the same total and their chunk numbers are the
\* numbers 1..total, each once.
SynthesizedFromOneMessage ==
    [][\A l \in Listeners, n \in 1..MaxChunks, i \in 1..MaxChunks :
        (i <= n /\ listener_read(l, ChunkLine(i, n)) /\ pc'[l] = "hs_emit") =>
            LET used == Append(loc[l].chunk_buffer, <<i, n, ChunkPayload(i)>>)
            IN  /\ \A j \in DOMAIN used : used[j][2] = n
                /\ Len(used) = n
                /\ {used[j][1] : j \in DOMAIN used} = 1..n]_vars

(***************************************************************************)
(* Listeners of one port.                                                  *)
(***************************************************************************)
\* C29: at most one listener thread is alive for any port, and the record
\* of a port names a listener that is alive for it: no listener runs on
\* beside, or deletes, the record a later connect has created.
OneListenerPerPort ==
    \A p \in SerialPorts :
        /\ Cardinality(RunningListeners(p)) <= 1
        /\ serial_connections[p] # NoConn =>
              serial_connections[p].thread \in RunningListeners(p)

(***************************************************************************)
(* Freedom from deadlock.                                                  *)
(***************************************************************************)
\* the holder of state_lock waits for serial_lock while the holder of
\* serial_lock waits for state_lock
CircularWait ==
    /\ state_lock # None
    /\ serial_lock # None
    /\ TakesSerialLock(pc[state_lock])
    /\ TakesStateLock(pc[serial_lock])

\* C30: no thread waits for a lock forever: no lock is held by a thread that
\* waits for a lock it holds itself, nor by threads that wait for each
\* other's lock, so that every lock that is taken is released.
DeadlockFree ==
    /\ ~StateLockStuck
    /\ ~CircularWait
    /\ \A t \in Threads : ~WaitsForever(t)

(***************************************************************************)
(* Lines read by a listener whose record is gone.                          *)
(***************************************************************************)
\* listener l reads a line while its port has no record and no request is
\* under way: the disconnect or use_network that removed the record has
\* returned and no connect has followed
ReadsAfterRemoval(l) ==
    /\ pc[l] = "sl_read"
    /\ calls'[l] = calls[l] + 1
    /\ serial_connections[loc[l].sport] = NoConn
    /\ \A t \in Workers : pc[t] = "idle"

\* C31: a line read by the old listener of a port after the disconnect or
\* use_network that removed the port's record has returned changes nothing
\* in the state of the device the listener served.
OldListenerChangesNothing ==
    [][\A l \in Listeners :
        ReadsAfterRemoval(l) => devices_state'[loc[l].dev] = devices_state[loc[l].dev]]_vars

(***************************************************************************)
(* The connection table and the registry.                                  *)
(***************************************************************************)
\* C32: every record of serial_connections agrees with the registry: the
\* device it names has connection method usb and the record's port as its
\* serial port, so that no device is named by the records of two ports.
RecordsAgreeWithRegistry ==
    \A p \in DOMAIN serial_connections :
        serial_connections[p] # NoConn =>
            /\ devices_state[serial_connections[p].device_key].connection_method = "usb"
            /\ devices_state[serial_connections[p].device_key].serial_port = p

(***************************************************************************)
(* A telemetry frame for a device that has telemetry already: an earlier   *)
(* frame, psi=7;mode=1, has been handled, and the receive loop or the      *)
(* listener of COM3 has taken up the next frame and is about to parse it.  *)
(***************************************************************************)
PriorPairs == <<<<(<<"psi">>), (<<"7">>)>>, <<(<<"mode">>), (<<"1">>)>>>>
\* what the handling of the earlier frame has stored
PriorTelemetry(d) ==
    DictUpdate(<<>>, parse_telemetry(TelemFrame(UpperLexeme(d), PriorPairs, <<"=", ";">>), d))

InitMerge ==
    \E pairs \in PairLists, fmt \in WireFormats, a \in SourceIps, usb \in BOOLEAN :
        /\ configs = IF usb THEN SavedConfig(<<>>, "pressboi", "usb", "COM3") ELSE <<>>
        /\ devices_state =
              [d \in Devices |->
                 IF d = "pressboi"
                 THEN [NewDeviceState EXCEPT
                         !.connected = TRUE, !.last_rx = 1,
                         !.ip = IF usb THEN None ELSE a,
                         !.connection_method = IF usb THEN "usb" ELSE "network",
                         !.serial_port = IF usb THEN "COM3" ELSE None,
                         !.telemetry = PriorTelemetry(d)]
                 ELSE [NewDeviceState EXCEPT
                         !.connected = TRUE, !.last_rx = 1, !.ip = a,
                         !.telemetry = PriorTelemetry(d)]]
        /\ serial_connections =
              [p \in SerialPorts |->
                 IF usb THEN [NewConn("pressboi", "l1") EXCEPT !.serial = "l1"] ELSE NoConn]
        /\ state_lock = None
        /\ serial_lock = None
        /\ udp_socket_bound = TRUE
        /\ udp_init_attempted = TRUE
        /\ now = 1
        /\ calls = [t \in Threads |-> IF t = (IF usb THEN "l1" ELSE "udp") THEN 2 ELSE 0]
        /\ pc = [t \in Threads |->
                    IF t = "l1" THEN (IF usb THEN "hs_class" ELSE "dead")
                    ELSE IF t = "l2" THEN "dead"
                    ELSE IF t = "mon" THEN "mon_sleep"
                    ELSE IF t = "udp" THEN (IF usb THEN "idle" ELSE "un_telem")
                    ELSE "idle"]
        /\ loc = [t \in Threads |->
                    IF t = "udp" /\ ~usb
                    THEN [IdleLoc EXCEPT !.op = "telem", !.ip = a, !.dev = "pressboi",
                                         !.msg = TelemFrame("PRESSBOI", pairs, fmt)]
                    ELSE IF t = "l1" /\ usb
                    THEN [IdleLoc EXCEPT !.op = "listener", !.dev = "pressboi", !.sport = "COM3",
                                         !.msg = TelemFrame("PRESSBOI", pairs, fmt),
                                         !.emits = <<<<"device_update", "pressboi">>>>]
                    ELSE IdleLoc]

NextMerge ==
    \/ network_telemetry("udp")
    \/ \E t \in Threads : emit_device_update(t)
    \/ \E l \in Listeners : handle_serial_class(l)

SpecMerge == InitMerge /\ [][NextMerge]_vars

\* the keys of the pairs of a frame
FrameKeys(pairs) == {pairs[i][1] : i \in DOMAIN pairs}

\* C33: the step that stores the telemetry of a frame for device d, on the
\* UDP path or on the serial path, leaves every key of the frame in
\* d.telemetry with a value the frame gives it, keeps the value of every key
\* of d.telemetry that the frame does not carry, and changes nothing else of
\* d and nothing of another device.
TelemetryMerged ==
    [][\A t \in {"udp"} \cup Listeners, pairs \in PairLists, fmt \in WireFormats :
        (/\ pc[t] \in {"un_telem", "hs_class"}
         /\ pc'[t] # pc[t]
         /\ loc[t].msg = TelemFrame("PRESSBOI", pairs, fmt)) =>
            LET d == loc[t].dev
                old == devices_state[d].telemetry
                new == devices_state'[d].telemetry
            IN  /\ \A k \in FrameKeys(pairs) :
                      /\ k \in DOMAIN new
                      /\ new[k] \in {pairs[j][2] : j \in {n \in DOMAIN pairs : pairs[n][1] = k}}
                /\ \A k \in DOMAIN old :
                      (\A x \in FrameKeys(pairs) : k # x /\ k # FormattedKey(x)) =>
                          (k \in DOMAIN new /\ new[k] = old[k])
                /\ devices_state' = [devices_state EXCEPT ![d] = [@ EXCEPT !.telemetry = new]]]_vars

(***************************************************************************)
(* Concurrent connect and use_network for two devices.                     *)
(***************************************************************************)
\* worker u has written connections.json in switch_to_network (line 1061) and
\* has not yet returned
HasSavedNetwork(u) == pc[u] = "sn_emit" /\ loc[u].op = "use_network"

\* C34: when connect(p, d1) writes connections.json after a concurrent
\* use_network(d2) for another device d2 has written it, the file holds the
\* entry written for d1 (usb, p) and the entry written for d2 (network).
ConcurrentChoicesKept ==
    [][\A t, u \in Workers :
        (/\ pc[t] = "cs_save" /\ pc'[t] = "idle"
         /\ HasSavedNetwork(u)
         /\ loc[u].dev # loc[t].dev)
        => /\ loc[t].dev \in DOMAIN configs'
           /\ configs'[loc[t].dev] =
                 [connection_method |-> "usb", serial_port |-> loc[t].sport]
           /\ loc[u].dev \in DOMAIN configs'
           /\ configs'[loc[u].dev] =
                 [connection_method |-> "network", serial_port |-> None]]_vars

(***************************************************************************)
(* set_device_paths, lines 1215-1226: the device definitions are loaded    *)
(* again and the saved connection configs are applied again, while the     *)
(* other threads run.                                                      *)
(***************************************************************************)
\* apply_saved_connection_configs, lines 316-319, on the registry st: a device
\* that has an entry in the file takes its method and serial port, and keeps
\* every other field
ReappliedConfigs(st, cfg) ==
    [d \in DOMAIN st |->
        IF d \in DOMAIN cfg
        THEN [st[d] EXCEPT !.connection_method = cfg[d].connection_method,
                           !.serial_port = cfg[d].serial_port]
        ELSE st[d]]

\* lines 1222-1224 and 314: load_device_definitions takes and releases
\* state_lock and leaves the record of every device that has one (lines
\* 142-144 and 247-260); apply_saved_connection_configs reads connections.json
set_device_paths(t) ==
    /\ pc[t] = "idle"
    /\ state_lock = None
    /\ Go(t, "ap_apply")
    /\ loc' = [loc EXCEPT ![t] = [IdleLoc EXCEPT !.op = "set_device_paths", !.cfg = configs]]
    /\ BeginCall(t)
    /\ UNCHANGED <<devices_state, serial_connections, state_lock, serial_lock, configs,
                   udp_socket_bound, udp_init_attempted, now>>

\* lines 315-319 and 1226: under state_lock the entries read are applied
apply_saved(t) ==
    /\ pc[t] = "ap_apply"
    /\ state_lock = None
    /\ devices_state' = ReappliedConfigs(devices_state, loc[t].cfg)
    /\ Return(t, "True")
    /\ UNCHANGED <<serial_connections, state_lock, serial_lock, configs,
                   udp_socket_bound, udp_init_attempted, now, calls>>

\* connections.json as an earlier run can have left it: empty, or pressboi
\* saved by connect, or pressboi saved by use_network
PathsConfigs ==
    InitConfigs \cup {SavedConfig(<<>>, "pressboi", "network", None)}

InitPaths ==
    /\ configs \in PathsConfigs
    /\ devices_state = apply_saved_connection_configs(configs)
    /\ serial_connections = [p \in SerialPorts |-> NoConn]
    /\ state_lock = None
    /\ serial_lock = None
    /\ udp_socket_bound = FALSE
    /\ udp_init_attempted = FALSE
    /\ now = 1
    /\ pc = [t \in Threads |-> IF t \in Listeners THEN "dead" ELSE "boot"]
    /\ loc = [t \in Threads |-> IdleLoc]
    /\ calls = [t \in Threads |-> 0]

NextPaths ==
    \/ Next
    \/ \E t \in Workers : Request(t, [w \in Workers |-> MaxRequests]) /\ set_device_paths(t)
    \/ \E t \in Workers : apply_saved(t)

SpecPaths == InitPaths /\ [][NextPaths]_vars

\* C35: a device that is connected and whose connection method is network
\* has an ip address.
ConnectedNetworkRoutable ==
    \A d \in Devices :
        (devices_state[d].connected /\ devices_state[d].connection_method = "network")
            => devices_state[d].ip # None

====
